---- MODULE Spec2Model ----
(***************************************************************************)
(* Verification model of the "actas" local-first application:             *)
(*   - the kanban task board (TasksPage): sortTasks, applyDrop,            *)
(*     applyDropOnTask, updateTasks, loadFromApi / loadFromStorage;       *)
(*   - the actas page (App): draft auto-save with the 600 ms debounce,     *)
(*     client registry handlers;                                          *)
(*   - the home page load, the header bulk import push;                    *)
(*   - the API server (GET/PUT /api/state with coerceState).               *)
(* Specifications: SpecOrder (reorder functions), SpecSync (load, push,   *)
(* refresh), SpecServer (PUT/GET of arbitrary bodies), SpecDraft (actas     *)
(* page auto-save), SpecUndo (delete / toggle / undo and the 5000 ms       *)
(* countdown), SpecImport (CSV import and export, reload), SpecBoard (add,  *)
(* drop, delete, toggle, undo and reload on the board, with its message),  *)
(* SpecTabs (two tabs pushing to one remote row), SpecQuick (editing and   *)
(* deleting quick notes).                                                  *)
(* One React event handler is one action.  setState calls take effect at   *)
(* the end of the event (batching); closures see the state of the render   *)
(* in which they were created.  storage.setItem calls are served in the    *)
(* order in which they are issued, so a write is modelled at its call.     *)
(***************************************************************************)
EXTENDS Integers, Sequences, FiniteSets, TLC

\* ------------------------------------------------------------------ bounds
MaxTasks == 3      \* tasks in a collection
MaxOrder == 1      \* largest order value of a loaded task
MaxTime  == 2      \* distinct createdAt instants
MaxConts == 1      \* async handlers suspended at a storage await
MaxNet   == 1      \* PUT requests in flight
MaxLoads == 1      \* reloads in progress
MaxOps   == 2      \* collection-changing user operations in a session
MaxNow   == 3      \* timestamps taken in a session
MaxUndoOps == 4    \* user operations in a run of the undo ledger
MaxBoardOps == 3   \* user operations in a run of the task board
MaxMsgTimers == 2  \* 1200 ms message timeouts pending at a time
MaxClients == 3    \* names in the client registry
MaxImports == 1    \* CSV files imported from the minutes editor
MaxRows  == 2      \* rows of an imported CSV file

\* --------------------------------------------------------- program values
Buckets == {"today", "week", "none"}
NoBucket == "undefined"          \* Task.bucket is optional
NoOrder == -1                    \* encoding of a missing Task.order
PosInf == 1000000                \* Number.POSITIVE_INFINITY in sortTasks
NoId == 0                        \* draggedTaskId === null
Fields == {"notes", "clients", "quickNotes", "tasks"}
DEFAULT_CLIENTS == <<"Altessia">>
\* an empty undo slot (null), no pending timeout
NoUndo == [type |-> "null"]
NoActa == [id |-> NoId]
NoTimeout == [armed |-> FALSE, for |-> NoId]
\* emptyDraft(): no id, blank client and content
emptyDraft == [id |-> NoId, client |-> "", date |-> 1, content |-> ""]

VARIABLES
  page,             \* the mounted route: "tasks" | "home" | "actas" | "notas"
  apiBase,          \* API_BASE is set (static configuration)
  notes,            \* in-memory actas of the mounted page (notes / actasMirror)
  quickNotes,       \* in-memory quick notes (quickNotesCache / quickNotesMirror)
  tasks,            \* in-memory tasks, as seen by the handlers (tasks / tasksCache)
  clients,          \* in-memory client registry
  loading,          \* useState(true), cleared when a load ends
  draggedTaskId,    \* TasksPage: useState<string | null>
  pc,               \* position inside a DOM event: "idle" | "bubble"
  queuedTasks,      \* value of the last setTasks call of the running event
  evBucket,         \* column.id of the column under the running drop event
  lastOp,           \* last handler that changed a collection
  ops,              \* number of collection-changing user operations so far
  draft,            \* App: the note being edited (useState<NoteDraft>)
  dirty,            \* App: useState(false), set by handleDraftChange
  saving,           \* App: useState(false), set while saveDraft runs
  timer,            \* App: the 600 ms timeout of the debounce effect is armed
  saves,            \* saveDraft runs (one PUT each) since the last draft edit
  now,              \* clock: number of timestamps taken so far
  undoAction,       \* TasksPage: useState<{type, task, previousDone} | null>
  undoActa,         \* App: useState<Note | null> (undoNote on the quick-notes page)
  undoTimeout,      \* the 5000 ms timeout held by undoTimeoutRef, if pending
  cache,            \* localforage store: one document per collection
  remote,           \* server row of the user in app_state_users
  net,              \* PUT /api/state requests in flight
  conts,            \* async handlers suspended at `await storage.setItem`
  loads,            \* loadFromApi / loadFromStorage calls in progress
  message,          \* TasksPage: useState<string | null>, "null" for null
  msgTimers,        \* TasksPage: pending 1200 ms setTimeout(() => setMessage(null))
  timerEnv          \* quick notes: `notes` as the pending timeout's saveDraft sees it

memVars == <<notes, quickNotes, tasks, clients, loading>>
dragVars == <<draggedTaskId, pc, queuedTasks, evBucket>>
ioVars == <<cache, remote, net, conts, loads>>
draftVars == <<draft, dirty, saving, timer, saves, now>>
undoVars == <<undoAction, undoActa, undoTimeout>>
uiVars == <<message, msgTimers, timerEnv>>
vars == <<page, apiBase, notes, quickNotes, tasks, clients, loading,
          draggedTaskId, pc, queuedTasks, evBucket, lastOp, ops,
          draft, dirty, saving, timer, saves, now,
          undoAction, undoActa, undoTimeout,
          cache, remote, net, conts, loads, message, msgTimers, timerEnv>>

\* the App page's editor state right after mount
DraftIdle ==
  /\ undoAction = NoUndo /\ undoActa = NoActa /\ undoTimeout = NoTimeout
  /\ draft = emptyDraft
  /\ dirty = FALSE /\ saving = FALSE /\ timer = FALSE
  /\ saves = 0 /\ now = 0

\* ----------------------------------------------------------- sortTasks
BucketOf(t) == IF t.bucket = NoBucket THEN "none" ELSE t.bucket

OrderKey(t) == IF t.order = NoOrder THEN PosInf ELSE t.order

\* comparator of sortTasks: negative result, a sorts before b
TaskBefore_orderOnly(a, b) ==
  OrderKey(a) < OrderKey(b)
TaskBefore(a, b) ==
  IF OrderKey(a) # OrderKey(b) THEN OrderKey(a) < OrderKey(b)
  ELSE a.createdAt > b.createdAt

\* Array.prototype.sort is stable: x goes before the first element it
\* strictly precedes
RECURSIVE InsertPos(_, _, _)
InsertPos(s, x, i) ==
  IF i > Len(s) THEN i
  ELSE IF TaskBefore(x, s[i]) THEN i
  ELSE InsertPos(s, x, i + 1)

InsertTask(s, x) ==
  LET p == InsertPos(s, x, 1)
  IN SubSeq(s, 1, p - 1) \o <<x>> \o SubSeq(s, p, Len(s))

RECURSIVE SortFrom(_, _, _)
SortFrom(list, i, acc) ==
  IF i > Len(list) THEN acc
  ELSE SortFrom(list, i + 1, InsertTask(acc, list[i]))

sortTasks(list) == SortFrom(list, 1, <<>>)

\* ------------------------------------------------------ list primitives
\* Array.prototype.findIndex, 1-based, 0 when absent
RECURSIVE FindIndexFrom(_, _, _)
FindIndexFrom(s, id, i) ==
  IF i > Len(s) THEN 0
  ELSE IF s[i].id = id THEN i
  ELSE FindIndexFrom(s, id, i + 1)

FindIndex(s, id) == FindIndexFrom(s, id, 1)

HasId(s, id) == FindIndex(s, id) # 0

\* new Map(entries).get(id): the last entry with that key wins
LastIndex(s, id) ==
  LET hits == {i \in 1..Len(s) : s[i].id = id}
  IN IF hits = {} THEN 0 ELSE CHOOSE i \in hits : \A j \in hits : j <= i

MaxOf(S) == CHOOSE m \in S : \A x \in S : x <= m

\* ------------------------------------------------------------ applyDrop
\* t.order ?? 0
OrderOrZero(t) == IF t.order = NoOrder THEN 0 ELSE t.order

applyDropActs(ts, dragged) == dragged # NoId /\ HasId(ts, dragged)

\* variant of applyDrop that gives every task of the bucket the new order
applyDrop_stampsBucket(ts, dragged, bucket) ==
  LET task == ts[FindIndex(ts, dragged)]
      others == {i \in 1..Len(ts) : BucketOf(ts[i]) = bucket /\ ts[i].id # task.id}
      maxOrder == MaxOf({-1} \cup {OrderOrZero(ts[i]) : i \in others})
  IN [i \in 1..Len(ts) |->
        IF ts[i].id = task.id \/ BucketOf(ts[i]) = bucket
        THEN [ts[i] EXCEPT !.bucket = bucket, !.order = maxOrder + 1]
        ELSE ts[i]]

applyDrop(ts, dragged, bucket) ==
  LET task == ts[FindIndex(ts, dragged)]
      others == {i \in 1..Len(ts) : BucketOf(ts[i]) = bucket /\ ts[i].id # task.id}
      maxOrder == MaxOf({-1} \cup {OrderOrZero(ts[i]) : i \in others})
  IN [i \in 1..Len(ts) |->
        IF ts[i].id = task.id
        THEN [ts[i] EXCEPT !.bucket = bucket, !.order = maxOrder + 1]
        ELSE ts[i]]

\* ------------------------------------------------------ applyDropOnTask
applyDropOnTaskActs(ts, dragged, targetId) ==
  dragged # NoId /\ HasId(ts, targetId) /\ HasId(ts, dragged)

\* applyDropOnTask numbering the spliced list from 1 instead of 0
applyDropOnTask_fromOne(ts, draggedId, bucket, targetId) ==
  LET target == ts[FindIndex(ts, targetId)]
      dragged == ts[FindIndex(ts, draggedId)]
      bucketTasks ==
        sortTasks(SelectSeq(ts, LAMBDA t : BucketOf(t) = bucket /\ t.id # dragged.id))
      targetIndex == FindIndex(bucketTasks, target.id)
      moved == [dragged EXCEPT !.bucket = bucket]
      nextList ==
        IF targetIndex > 0
        THEN SubSeq(bucketTasks, 1, targetIndex - 1) \o <<moved>>
               \o SubSeq(bucketTasks, targetIndex, Len(bucketTasks))
        ELSE Append(bucketTasks, moved)
  IN [i \in 1..Len(ts) |->
        LET t == ts[i]
            k == LastIndex(nextList, t.id)
        IN IF BucketOf(t) # bucket /\ t.id # dragged.id THEN t
           ELSE IF k = 0
                THEN (IF t.id = dragged.id THEN [t EXCEPT !.bucket = bucket] ELSE t)
                ELSE [t EXCEPT !.bucket = bucket, !.order = k]]

applyDropOnTask(ts, draggedId, bucket, targetId) ==
  LET target == ts[FindIndex(ts, targetId)]
      dragged == ts[FindIndex(ts, draggedId)]
      bucketTasks ==
        sortTasks(SelectSeq(ts, LAMBDA t : BucketOf(t) = bucket /\ t.id # dragged.id))
      targetIndex == FindIndex(bucketTasks, target.id)
      moved == [dragged EXCEPT !.bucket = bucket]
      nextList ==
        IF targetIndex > 0
        THEN SubSeq(bucketTasks, 1, targetIndex - 1) \o <<moved>>
               \o SubSeq(bucketTasks, targetIndex, Len(bucketTasks))
        ELSE Append(bucketTasks, moved)
  IN [i \in 1..Len(ts) |->
        LET t == ts[i]
            k == LastIndex(nextList, t.id)
        IN IF BucketOf(t) # bucket /\ t.id # dragged.id THEN t
           ELSE IF k = 0
                THEN (IF t.id = dragged.id THEN [t EXCEPT !.bucket = bucket] ELSE t)
                ELSE [t EXCEPT !.bucket = bucket, !.order = k - 1]]


\* ------------------------------------------------------- client registry
\* collation rank of a name under localeCompare(.., 'es', {sensitivity:'base'})
CollRank(name) ==
  CASE name = "acme" -> 1
    [] name = "Acme" -> 1
    [] name = "Altessia" -> 2
    [] name = "Beta" -> 3
    [] name = "Sin cliente" -> 4
    [] OTHER -> 0

\* String.prototype.toLowerCase on the names in use
toLowerCase(name) ==
  CASE name = "Acme" -> "acme"
    [] name = "Altessia" -> "altessia"
    [] name = "Beta" -> "beta"
    [] name = "Sin cliente" -> "sin cliente"
    [] OTHER -> name

RECURSIVE DedupFrom(_, _, _)
\* [...new Set(list)]: first occurrence of every exact string
DedupFrom(list, i, acc) ==
  IF i > Len(list) THEN acc
  ELSE DedupFrom(list, i + 1,
         IF \E j \in 1..Len(acc) : acc[j] = list[i] THEN acc ELSE Append(acc, list[i]))

RECURSIVE NamePos(_, _, _)
NamePos(s, x, i) ==
  IF i > Len(s) THEN i
  ELSE IF CollRank(x) < CollRank(s[i]) THEN i
  ELSE NamePos(s, x, i + 1)

RECURSIVE SortNamesFrom(_, _, _)
SortNamesFrom(list, i, acc) ==
  IF i > Len(list) THEN acc
  ELSE SortNamesFrom(list, i + 1,
         LET p == NamePos(acc, list[i], 1)
         IN SubSeq(acc, 1, p - 1) \o <<list[i]>> \o SubSeq(acc, p, Len(acc)))

\* Array.from(new Set(list)).sort(localeCompare)
combineClients(list) == SortNamesFrom(DedupFrom(list, 1, <<>>), 1, <<>>)

\* sortClients: [...new Set(clients.filter(Boolean))].sort(localeCompare)
sortClients(list) == combineClients(SelectSeq(list, LAMBDA c : c # ""))

\* ------------------------------------------------------------ JSON wire
\* a JSON field value: an array (arr) with its items, or something else
J(seq) == [arr |-> TRUE, v |-> seq]

\* Array.isArray(doc.f) ? doc.f : []
ArrOr(doc, f) == IF f \in DOMAIN doc /\ doc[f].arr THEN doc[f].v ELSE <<>>

\* server/index.js coerceState
coerceState(payload) ==
  [notes |-> J(ArrOr(payload, "notes")),
   clients |-> J(ArrOr(payload, "clients")),
   quickNotes |-> J(ArrOr(payload, "quickNotes"))]

\* body of GET /api/state
getState(row) ==
  IF row = <<>>
  THEN [notes |-> J(<<>>), clients |-> J(<<>>), quickNotes |-> J(<<>>)]
  ELSE coerceState(row[1])

\* body of the PUT issued by TasksPage.syncState
tasksSyncBody(actasMirror, clientsToSave, quickNotesMirror, tasksToSave) ==
  [notes |-> J(actasMirror), clients |-> J(clientsToSave),
   quickNotes |-> J(quickNotesMirror), tasks |-> J(tasksToSave)]

\* the four storage.getItem(..) || [] reads of loadFromStorage
storageDoc(c) ==
  [notes |-> J(c.notes), clients |-> J(c.clients),
   quickNotes |-> J(c.quickNotes), tasks |-> J(c.tasks)]

NoOp == [op |-> "none", bucket |-> "none", id |-> NoId, target |-> NoId, body |-> <<>>,
         replaced |-> NoId, rows |-> <<>>, prev |-> <<>>]

\* -------------------------------------------------------- updateTasks
\* setTasks(sorted); storage.setItem('tasks', sorted); the rest of the
\* async function (syncState, dispatchEvent) waits in conts.
\* commit: the event ends with this call, so the re-render shows sorted.
updateTasks(nextTasks, commit) ==
  LET sorted == sortTasks(nextTasks)
  IN /\ queuedTasks' = IF commit THEN <<>> ELSE sorted
     /\ tasks' = IF commit THEN sorted ELSE tasks
     /\ cache' = [cache EXCEPT !.tasks = sorted]
     /\ conts' = Append(conts, [kind |-> "updateTasks", env |-> <<>>,
                                body |-> tasksSyncBody(notes, clients, quickNotes, sorted)])

\* the board is rendered and no DOM event is being dispatched
BoardReady == page = "tasks" /\ pc = "idle" /\ ~loading

\* onDragStart of a task card
DragStart(id) ==
  /\ BoardReady
  /\ HasId(tasks, id)
  /\ draggedTaskId' = id
  /\ UNCHANGED <<uiVars, page, apiBase, undoVars, ops, draftVars, memVars, pc, queuedTasks, evBucket, lastOp, ioVars>>

\* onDragEnd of a task card
DragEnd ==
  /\ BoardReady
  /\ draggedTaskId # NoId
  /\ draggedTaskId' = NoId
  /\ UNCHANGED <<uiVars, page, apiBase, undoVars, ops, draftVars, memVars, pc, queuedTasks, evBucket, lastOp, ioVars>>

\* onDrop of a column, the drop landing outside every card
ColumnOnDrop(bucket) ==
  /\ BoardReady
  /\ draggedTaskId # NoId
  /\ Len(conts) < MaxConts /\ ops < MaxOps
  /\ ops' = ops + 1
  /\ IF applyDropActs(tasks, draggedTaskId)
     THEN /\ updateTasks(applyDrop(tasks, draggedTaskId, bucket), TRUE)
          /\ lastOp' = [NoOp EXCEPT !.op = "applyDrop", !.bucket = bucket,
                                     !.id = draggedTaskId]
     ELSE UNCHANGED <<tasks, queuedTasks, cache, conts, lastOp>>
  /\ draggedTaskId' = NoId
  /\ UNCHANGED <<uiVars, page, apiBase, undoVars, draftVars, notes, quickNotes, clients, loading, pc, evBucket,
                 remote, net, loads>>

\* onDrop of a task card; the event then bubbles to the column
CardOnDrop(targetId) ==
  /\ BoardReady
  /\ draggedTaskId # NoId
  /\ HasId(tasks, targetId)
  /\ Len(conts) < MaxConts /\ ops < MaxOps
  /\ ops' = ops + 1
  /\ LET bucket == BucketOf(tasks[FindIndex(tasks, targetId)])
     IN /\ IF applyDropOnTaskActs(tasks, draggedTaskId, targetId)
           THEN /\ updateTasks(applyDropOnTask(tasks, draggedTaskId, bucket, targetId), FALSE)
                /\ lastOp' = [NoOp EXCEPT !.op = "applyDropOnTask", !.bucket = bucket,
                                           !.id = draggedTaskId, !.target = targetId]
           ELSE UNCHANGED <<tasks, queuedTasks, cache, conts, lastOp>>
        /\ evBucket' = bucket
  /\ pc' = "bubble"
  /\ UNCHANGED <<uiVars, page, apiBase, undoVars, draftVars, notes, quickNotes, clients, loading, draggedTaskId,
                 remote, net, loads>>

\* the column's onDrop run by the bubbling card drop: same render, so
\* tasks and draggedTaskId are the ones the card handler saw
ColumnOnDropBubble ==
  /\ page = "tasks" /\ pc = "bubble"
  /\ IF applyDropActs(tasks, draggedTaskId)
     THEN /\ updateTasks(applyDrop(tasks, draggedTaskId, evBucket), TRUE)
          /\ lastOp' = [lastOp EXCEPT !.op = "applyDropOnTask+applyDrop"]
     ELSE /\ tasks' = tasks
          /\ queuedTasks' = <<>>
          /\ UNCHANGED <<cache, conts, lastOp>>
  /\ draggedTaskId' = NoId
  /\ pc' = "idle"
  /\ evBucket' = "none"
  /\ UNCHANGED <<uiVars, page, apiBase, undoVars, ops, draftVars, notes, quickNotes, clients, loading, remote, net, loads>>

\* ------------------------------------------------------------ sortNotes
\* comparator of sortNotes: date descending, then createdAt descending
NoteBefore(a, b) ==
  IF a.date # b.date THEN a.date > b.date ELSE a.createdAt > b.createdAt

RECURSIVE NotePos(_, _, _)
NotePos(s, x, i) ==
  IF i > Len(s) THEN i
  ELSE IF NoteBefore(x, s[i]) THEN i
  ELSE NotePos(s, x, i + 1)

RECURSIVE SortNotesFrom(_, _, _)
SortNotesFrom(list, i, acc) ==
  IF i > Len(list) THEN acc
  ELSE SortNotesFrom(list, i + 1,
         LET p == NotePos(acc, list[i], 1)
         IN SubSeq(acc, 1, p - 1) \o <<list[i]>> \o SubSeq(acc, p, Len(acc)))

sortNotes(list) == SortNotesFrom(list, 1, <<>>)

\* ------------------------------------------------- async continuations
\* a load that handleRefresh / the mount effect starts; cause records the
\* caller: "mount", or the outcome of the push that dispatched the event
startLoad(cause) ==
  [src |-> IF apiBase THEN "api" ELSE "storage", phase |-> "wait",
   failed |-> FALSE, data |-> <<>>, cause |-> cause]

\* window.dispatchEvent('actas:tasks-updated' | 'actas:data-imported'):
\* handleRefresh of the mounted page starts a load
handleRefresh(kind, cause) ==
  IF (kind = "updateTasks" /\ page = "tasks")
     \/ (kind = "import" /\ page \in {"tasks", "home", "actas"})
  THEN loads \cup {startLoad(cause)}
  ELSE loads

CanRefresh(cause) == startLoad(cause) \in loads \/ Cardinality(loads) < MaxLoads

\* 1200 ms message timeouts pending or still to be started by a suspended
\* handleAddTask
PendingMsgTimers ==
  msgTimers
  + Cardinality({i \in 1..Len(conts) : conts[i].env = <<"handleAddTask">>})
  + Cardinality({m \in net : m.env = <<"handleAddTask">>})

\* the rest of an async handler once its syncState call has returned:
\* App.saveDraft ends with setDirty(false); setSaving(false), and the
\* debounce effect, dirty being false, leaves no timer
\*   handleDeleteNote: select the first remaining note (or an empty draft),
\*     setDirty(false), clear the pending undo timeout, record the deleted
\*     note if there was one, arm a new 5000 ms timeout
\*   handleUndoDelete: setUndoActa(null); the timeout is left as it is
\*   handleAddTask, after `await updateTasks(next)`: setMessage and a
\*     1200 ms timeout that sets the message to null
\*   quick notes saveDraft: setSaving(false); the effect's cleanup clears
\*     the timeout
\*   quick notes handleDeleteNote: select the first remaining note (or an
\*     empty draft); the draft changed, so the effect runs again and, while
\*     saving, arms a timeout whose saveDraft sees the current notes; undo
\*     slot and 5000 ms timeout as in App
afterSync(c) ==
  CASE c.kind = "saveDraft" ->
         /\ dirty' = FALSE /\ saving' = FALSE /\ timer' = FALSE
         /\ UNCHANGED <<draft, saves, now, undoVars, notes, uiVars>>
    [] c.kind = "handleDeleteNote" ->
         LET deleted == c.env[1]
             remaining == c.env[2]
         IN /\ draft' = IF Len(remaining) > 0
                         THEN [id |-> remaining[1].id, client |-> remaining[1].client,
                               date |-> remaining[1].date, content |-> remaining[1].content]
                         ELSE emptyDraft
            /\ dirty' = FALSE /\ timer' = FALSE
            /\ undoActa' = IF deleted.id # NoId THEN deleted ELSE undoActa
            /\ undoTimeout' = [armed |-> TRUE,
                                for |-> IF deleted.id # NoId THEN deleted.id
                                        ELSE undoActa.id]
            /\ UNCHANGED <<saving, saves, now, undoAction, notes, uiVars>>
    [] c.kind = "handleUndoDelete" ->
         /\ undoActa' = NoActa
         /\ UNCHANGED <<draftVars, undoAction, undoTimeout, notes, uiVars>>
    [] c.kind = "quickSaveDraft" ->
         /\ saving' = FALSE /\ timer' = FALSE
         /\ UNCHANGED <<draft, dirty, saves, now, undoVars, notes, uiVars>>
    [] c.kind = "quickHandleDeleteNote" ->
         LET deleted == c.env[1]
             remaining == c.env[2]
         IN /\ draft' = IF Len(remaining) > 0
                         THEN [id |-> remaining[1].id, client |-> remaining[1].client,
                               date |-> remaining[1].date, content |-> remaining[1].content]
                         ELSE emptyDraft
            /\ timer' = saving
            /\ timerEnv' = quickNotes
            /\ undoActa' = IF deleted.id # NoId THEN deleted ELSE undoActa
            /\ undoTimeout' = [armed |-> TRUE,
                                for |-> IF deleted.id # NoId THEN deleted.id
                                        ELSE undoActa.id]
            /\ UNCHANGED <<dirty, saving, saves, now, undoAction, notes, message, msgTimers>>
    [] c.kind = "updateTasks" /\ c.env = <<"handleAddTask">> ->
         /\ message' = "Tarea anadida"
         /\ msgTimers' = msgTimers + 1
         /\ UNCHANGED <<draftVars, undoVars, notes, timerEnv>>
    [] OTHER -> UNCHANGED <<draftVars, undoVars, notes, uiVars>>

\* `await storage.setItem(..)` returns: syncState issues the PUT, or,
\* without API_BASE, returns at once and the event is dispatched
StorageAwaitReturns ==
  /\ pc = "idle"
  /\ conts # <<>>
  /\ LET c == Head(conts)
     IN IF apiBase
        THEN /\ c \in net \/ Cardinality(net) < MaxNet
             /\ net' = net \cup {c}
             /\ loads' = loads
             /\ UNCHANGED <<draftVars, undoVars, notes, uiVars>>
        ELSE /\ CanRefresh("local")
             /\ loads' = handleRefresh(c.kind, "local")
             /\ net' = net
             /\ afterSync(c)
  /\ conts' = Tail(conts)
  /\ UNCHANGED <<page, apiBase, ops, quickNotes, tasks, clients, loading, dragVars,
                 lastOp, cache, remote>>

\* PUT /api/state handled by the server; then syncState returns
PutApplied(m) ==
  /\ pc = "idle"
  /\ m \in net
  /\ CanRefresh("pushOk")
  /\ remote' = <<coerceState(m.body)>>
  /\ net' = net \ {m}
  /\ loads' = handleRefresh(m.kind, "pushOk")
  /\ lastOp' = [NoOp EXCEPT !.op = "put", !.body = m.body, !.prev = remote]
  /\ afterSync(m)
  /\ UNCHANGED <<page, apiBase, ops, quickNotes, tasks, clients, loading, dragVars,
                 cache, conts>>

\* the PUT fails (network error caught by syncState, or a 500 reply that
\* fetch resolves normally): console.error only
PutFails(m) ==
  /\ pc = "idle"
  /\ m \in net
  /\ CanRefresh("pushFailed")
  /\ net' = net \ {m}
  /\ loads' = handleRefresh(m.kind, "pushFailed")
  /\ afterSync(m)
  /\ UNCHANGED <<page, apiBase, ops, quickNotes, tasks, clients, loading, dragVars,
                 lastOp, cache, remote, conts>>

\* ------------------------------------------------------------- loads
\* GET /api/state answered with 200 and a JSON body
FetchOk(l) ==
  /\ pc = "idle"
  /\ l \in loads /\ l.src = "api" /\ l.phase = "wait"
  /\ loads' = (loads \ {l}) \cup {[l EXCEPT !.phase = "ready", !.data = getState(remote)]}
  /\ UNCHANGED <<uiVars, page, apiBase, undoVars, ops, draftVars, memVars, dragVars, lastOp, cache, remote, net, conts>>

\* fetch throws, !res.ok, or res.json() throws: catch -> loadFromStorage
FetchFails(l) ==
  /\ pc = "idle"
  /\ l \in loads /\ l.src = "api" /\ l.phase = "wait"
  /\ loads' = (loads \ {l}) \cup {[l EXCEPT !.src = "storage", !.failed = TRUE]}
  /\ UNCHANGED <<uiVars, page, apiBase, undoVars, ops, draftVars, memVars, dragVars, lastOp, cache, remote, net, conts>>

\* loadFromStorage: the storage.getItem reads
StorageRead(l) ==
  /\ pc = "idle"
  /\ l \in loads /\ l.src = "storage" /\ l.phase = "wait"
  /\ loads' = (loads \ {l}) \cup {[l EXCEPT !.phase = "ready", !.data = storageDoc(cache)]}
  /\ UNCHANGED <<uiVars, page, apiBase, undoVars, ops, draftVars, memVars, dragVars, lastOp, cache, remote, net, conts>>

\* list.map((item) => item.client)
ClientsOf(list) == [i \in 1..Len(list) |-> list[i].client]

\* variant of TasksLoadApply that also writes the cache on the fallback path
TasksLoadApply_alwaysWrites(l) ==
  /\ page = "tasks" /\ pc = "idle"
  /\ l \in loads /\ l.phase = "ready"
  /\ LET storedTasks == ArrOr(l.data, "tasks")
         storedClients == ArrOr(l.data, "clients")
         storedActas == ArrOr(l.data, "notes")
         storedQuickNotes == ArrOr(l.data, "quickNotes")
         combinedClients ==
           combineClients(DEFAULT_CLIENTS \o storedClients \o ClientsOf(storedTasks))
         sortedTasks == sortTasks(storedTasks)
     IN /\ tasks' = sortedTasks
        /\ clients' = combinedClients
        /\ notes' = storedActas
        /\ quickNotes' = storedQuickNotes
        /\ cache' = [tasks |-> sortedTasks, clients |-> combinedClients,
                     notes |-> storedActas, quickNotes |-> storedQuickNotes]
  /\ loading' = FALSE
  /\ loads' = loads \ {l}
  /\ lastOp' = [NoOp EXCEPT !.op = IF l.failed THEN "loadFallback"
                                   ELSE IF l.src = "api" THEN "loadFromApi"
                                   ELSE "loadFromStorage"]
  /\ UNCHANGED <<uiVars, page, apiBase, undoVars, ops, draftVars, dragVars, remote, net, conts>>

\* TasksPage: the setState calls (and, after a fetch, the cache writes)
\* that end loadFromApi / loadFromStorage
TasksLoadApply(l) ==
  /\ page = "tasks" /\ pc = "idle"
  /\ l \in loads /\ l.phase = "ready"
  /\ LET storedTasks == ArrOr(l.data, "tasks")
         storedClients == ArrOr(l.data, "clients")
         storedActas == ArrOr(l.data, "notes")
         storedQuickNotes == ArrOr(l.data, "quickNotes")
         combinedClients ==
           combineClients(DEFAULT_CLIENTS \o storedClients \o ClientsOf(storedTasks))
         sortedTasks == sortTasks(storedTasks)
     IN /\ tasks' = sortedTasks
        /\ clients' = combinedClients
        /\ notes' = storedActas
        /\ quickNotes' = storedQuickNotes
        /\ cache' = IF l.src = "api"
                    THEN [tasks |-> sortedTasks, clients |-> combinedClients,
                          notes |-> storedActas, quickNotes |-> storedQuickNotes]
                    ELSE cache
  /\ loading' = FALSE
  /\ loads' = loads \ {l}
  /\ lastOp' = [NoOp EXCEPT !.op = IF l.failed THEN "loadFallback"
                                   ELSE IF l.src = "api" THEN "loadFromApi"
                                   ELSE "loadFromStorage"]
  /\ UNCHANGED <<uiVars, page, apiBase, undoVars, ops, draftVars, dragVars, remote, net, conts>>

\* HomePage: end of loadFromApi / loadFromStorage (actas and tasks only)
HomeLoadApply(l) ==
  /\ page = "home" /\ pc = "idle"
  /\ l \in loads /\ l.phase = "ready"
  /\ LET storedActas == ArrOr(l.data, "notes")
         storedTasks == ArrOr(l.data, "tasks")
         sorted == sortNotes(storedActas)
     IN /\ notes' = sorted
        /\ tasks' = sortTasks(storedTasks)
        /\ cache' = IF l.src = "api"
                    THEN [cache EXCEPT !.notes = sorted, !.tasks = storedTasks]
                    ELSE cache
  /\ loading' = FALSE
  /\ loads' = loads \ {l}
  /\ lastOp' = [NoOp EXCEPT !.op = IF l.failed THEN "loadFallback"
                                   ELSE IF l.src = "api" THEN "loadFromApi"
                                   ELSE "loadFromStorage"]
  /\ UNCHANGED <<uiVars, page, apiBase, undoVars, ops, draftVars, quickNotes, clients, dragVars, remote, net, conts>>

\* ------------------------------------------------- Header bulk import
\* comparator of the header's sortQuickNotes: date descending only
RECURSIVE QuickPos(_, _, _)
QuickPos(s, x, i) ==
  IF i > Len(s) THEN i
  ELSE IF x.date > s[i].date THEN i
  ELSE QuickPos(s, x, i + 1)

RECURSIVE SortQuickFrom(_, _, _)
SortQuickFrom(list, i, acc) ==
  IF i > Len(list) THEN acc
  ELSE SortQuickFrom(list, i + 1,
         LET p == QuickPos(acc, list[i], 1)
         IN SubSeq(acc, 1, p - 1) \o <<list[i]>> \o SubSeq(acc, p, Len(acc)))

sortQuickNotes(list) == SortQuickFrom(list, 1, <<>>)

\* [...stored.filter((n) => !imported.some((i) => i.id === n.id)), ...imported]
mergeImported_keepsStored(stored, imported) ==
  stored \o SelectSeq(imported, LAMBDA n : ~\E j \in 1..Len(stored) : stored[j].id = n.id)
mergeImported(stored, imported) ==
  SelectSeq(stored, LAMBDA n : ~\E j \in 1..Len(imported) : imported[j].id = n.id)
    \o imported

\* body of the PUT issued by Header.syncState
headerSyncBody(notesToSave, clientsToSave, quickNotesToSave) ==
  [notes |-> J(notesToSave), clients |-> J(clientsToSave),
   quickNotes |-> J(quickNotesToSave)]

\* ---------------------------------------------------------- CSV rows
\* A parsed CSV row is a record of its cells; a column the file does not
\* have is not in its domain.  Text cells may be the empty string.
TextCols == {"title", "client", "content_html"}

\* row[col] is truthy: the cell is there and is not the empty string
Has(row, col) == col \in DOMAIN row /\ (col \in TextCols => row[col] # "")

\* rows.filter((row) => row.title || row.content_html)
importedRowsOf(rows) == SelectSeq(rows, LAMBDA row : Has(row, "title") \/ Has(row, "content_html"))

\* the entity built from one row; id is what row.id || nanoid() gave
importRow(row, id) ==
  [id |-> id,
   title |-> IF Has(row, "title") THEN row.title ELSE "Sin título",
   client |-> IF Has(row, "client") THEN row.client ELSE "Sin cliente",
   date |-> IF Has(row, "date") THEN row.date ELSE now,
   content |-> IF Has(row, "content_html") THEN row.content_html ELSE "",
   createdAt |-> IF Has(row, "created_at") THEN row.created_at ELSE now,
   updatedAt |-> IF Has(row, "updated_at") THEN row.updated_at ELSE now]

RECURSIVE ImportFrom(_, _, _, _)
\* rows.map / rows.forEach: nanoid() gives an id that is in use nowhere
ImportFrom(rows, i, acc, used) ==
  IF i > Len(rows) THEN acc
  ELSE LET id == IF Has(rows[i], "id") THEN rows[i].id ELSE 1 + MaxOf(used \cup {NoId})
       IN ImportFrom(rows, i + 1, Append(acc, importRow(rows[i], id)), used \cup {id})

IdsOf(list) == {list[i].id : i \in 1..Len(list)}

\* the entities an import makes of the rows of one file
importRows(rows, stored) ==
  ImportFrom(importedRowsOf(rows), 1, <<>>,
             IdsOf(stored) \cup {rows[i].id : i \in {j \in 1..Len(rows) : Has(rows[j], "id")}})

\* the row Papa.unparse writes for an entity and Papa.parse reads back
exportRow(note) ==
  [id |-> note.id, title |-> note.title, client |-> note.client, date |-> note.date,
   content_html |-> note.content, created_at |-> note.createdAt,
   updated_at |-> note.updatedAt]

exportRows(list) == [i \in 1..Len(list) |-> exportRow(list[i])]

\* Header.handleImportAll with the rows parsed from the chosen CSV files;
\* the header is rendered on every route but "/"
handleImportAll(actasRows, quickRows) ==
  /\ page # "home" /\ pc = "idle"
  /\ Len(conts) < MaxConts /\ ops < MaxOps
  /\ ops' = ops + 1
  /\ LET importedActas == importRows(actasRows, cache.notes)
         importedQuickNotes == importRows(quickRows, cache.quickNotes)
         mergedActas == sortNotes(mergeImported(cache.notes, importedActas))
         mergedQuickNotes == sortQuickNotes(mergeImported(cache.quickNotes, importedQuickNotes))
         updatedClients ==
           sortClients(DEFAULT_CLIENTS \o cache.clients \o ClientsOf(mergedActas)
                         \o ClientsOf(mergedQuickNotes))
     IN /\ cache' = [cache EXCEPT !.notes = mergedActas,
                                  !.quickNotes = mergedQuickNotes,
                                  !.clients = updatedClients]
        /\ conts' = Append(conts, [kind |-> "import", env |-> <<>>,
                                   body |-> headerSyncBody(mergedActas, updatedClients,
                                                           mergedQuickNotes)])
        /\ lastOp' = [NoOp EXCEPT !.op = "handleImportAll", !.rows = actasRows,
                                  !.body = importedActas]
  /\ UNCHANGED <<uiVars, page, apiBase, undoVars, draftVars, memVars, dragVars, remote, net, loads>>

\* ------------------------------------------------------ App (actas page)
\* body of the PUT issued by App.syncState
appSyncBody(notesToSave, clientsToSave, quickNotesToSave, tasksToSave) ==
  [notes |-> J(notesToSave), clients |-> J(clientsToSave),
   quickNotes |-> J(quickNotesToSave), tasks |-> J(tasksToSave)]

\* isEmpty of saveDraft: every text of the draft is blank
isEmpty(d) == d.client = "" /\ d.content = ""

\* nanoid(): an id no note has
FreshId(list) == 1 + MaxOf({NoId} \cup {list[i].id : i \in 1..Len(list)})

EditorReady == page = "actas" /\ pc = "idle" /\ ~loading

\* handleDraftChange(patch): setDraft, setDirty(true); the debounce effect
\* runs again (dirty or saveDraft changed), clearing the pending timeout
\* and arming a new one
handleDraftChange(content) ==
  /\ EditorReady
  /\ ops < MaxOps
  /\ ops' = ops + 1
  /\ draft' = [draft EXCEPT !.content = content]
  /\ dirty' = TRUE
  /\ timer' = TRUE
  /\ saves' = 0
  /\ lastOp' = [NoOp EXCEPT !.op = "handleDraftChange"]
  /\ UNCHANGED <<uiVars, page, apiBase, undoVars, saving, now, memVars, dragVars, ioVars>>

\* the debounce timeout fires, 600 ms after it was armed: saveDraft() up to
\* its first await.  The local write of an earlier saveDraft has returned by
\* then.  setNotes (and setDraft for a new note) give saveDraft a new
\* identity while dirty is still true, so the effect arms a new timeout.
saveDraft ==
  /\ page = "actas" /\ pc = "idle"
  /\ timer
  /\ now < MaxNow
  /\ \A i \in 1..Len(conts) : conts[i].kind # "saveDraft"
  /\ Len(conts) < MaxConts
  /\ IF isEmpty(draft)
     THEN /\ dirty' = FALSE /\ saving' = FALSE /\ timer' = FALSE
          /\ UNCHANGED <<draft, saves, now, notes, cache, conts, lastOp>>
     ELSE LET timestamp == now + 1
              id == FreshId(notes)
              newNote == [id |-> id, client |-> draft.client, date |-> draft.date,
                          content |-> draft.content,
                          createdAt |-> timestamp, updatedAt |-> timestamp]
              nextNotes ==
                sortNotes(IF draft.id # NoId
                          THEN [i \in 1..Len(notes) |->
                                  IF notes[i].id = draft.id
                                  THEN [notes[i] EXCEPT !.client = draft.client,
                                                        !.date = draft.date,
                                                        !.content = draft.content,
                                                        !.updatedAt = timestamp]
                                  ELSE notes[i]]
                          ELSE <<newNote>> \o notes)
          IN /\ now' = timestamp
             /\ saving' = TRUE
             /\ draft' = IF draft.id # NoId THEN draft ELSE [draft EXCEPT !.id = id]
             /\ notes' = nextNotes
             /\ cache' = [cache EXCEPT !.notes = nextNotes]
             /\ conts' = Append(conts,
                                [kind |-> "saveDraft", env |-> <<>>,
                                 body |-> appSyncBody(nextNotes, clients, quickNotes, tasks)])
             /\ dirty' = dirty
             /\ timer' = dirty
             /\ saves' = saves + 1
             /\ lastOp' = [NoOp EXCEPT !.op = "saveDraft"]
  /\ UNCHANGED <<uiVars, page, apiBase, undoVars, ops, quickNotes, tasks, clients, loading, dragVars,
                 remote, net, loads>>

\* jumpToNote(noteId) (list click through handleSelectNote, mention click,
\* hash navigation): the draft becomes the note as notesRef holds it and
\* setDirty(false); the debounce effect's cleanup clears the pending timeout.
\* lastOp keeps the draft that was on screen if it had unsaved edits.
jumpToNote(noteId) ==
  /\ EditorReady
  /\ HasId(notes, noteId)
  /\ noteId # draft.id
  /\ LET note == notes[FindIndex(notes, noteId)]
     IN draft' = [id |-> note.id, client |-> note.client, date |-> note.date,
                  content |-> note.content]
  /\ dirty' = FALSE
  /\ timer' = FALSE
  /\ lastOp' = [NoOp EXCEPT !.op = "jumpToNote", !.id = noteId, !.target = draft.id,
                            !.body = IF dirty /\ timer THEN <<draft>> ELSE <<>>]
  /\ UNCHANGED <<uiVars, page, apiBase, undoVars, ops, saving, saves, now, memVars, dragVars, ioVars>>

\* the push a client-manager handler starts without awaiting it
clientPush(kind, notesToSave, clientsToSave) ==
  LET m == [kind |-> kind, env |-> <<>>,
            body |-> appSyncBody(notesToSave, clientsToSave, quickNotes, tasks)]
  IN IF apiBase
     THEN (m \in net \/ Cardinality(net) < MaxNet) /\ net' = net \cup {m}
     ELSE net' = net

\* handleClientAdd -> ensureClientExists(name, false): nothing for a blank
\* name or a name the registry has in another case; otherwise
\* sortClients([...prev, cleaned]), storage.setItem and syncState
ensureClientExists(clientName) ==
  /\ EditorReady
  /\ ops < MaxOps
  /\ ops' = ops + 1
  /\ clientName # ""
  /\ IF \E i \in 1..Len(clients) : toLowerCase(clients[i]) = toLowerCase(clientName)
     THEN UNCHANGED <<clients, cache, net>>
     ELSE LET next == sortClients(Append(clients, clientName))
          IN /\ clients' = next
             /\ cache' = [cache EXCEPT !.clients = next]
             /\ clientPush("ensureClientExists", notes, next)
  /\ lastOp' = [NoOp EXCEPT !.op = "ensureClientExists"]
  /\ UNCHANGED <<uiVars, page, apiBase, undoVars, draftVars, notes, quickNotes, tasks, loading,
                 dragVars, remote, conts, loads>>

\* handleClientUpdate(index, value), on blur of a name in the client
\* manager: nothing for a blank value; otherwise next[index] = cleaned,
\* sortClients(next), storage.setItem and syncState
handleClientUpdate(index, value) ==
  /\ EditorReady
  /\ ops < MaxOps
  /\ ops' = ops + 1
  /\ index \in 1..Len(clients)
  /\ value # ""
  /\ LET next == [clients EXCEPT ![index] = value]
         sorted == sortClients(next)
     IN /\ clients' = sorted
        /\ cache' = [cache EXCEPT !.clients = sorted]
        /\ clientPush("handleClientUpdate", notes, sorted)
  /\ lastOp' = [NoOp EXCEPT !.op = "handleClientUpdate"]
  /\ UNCHANGED <<uiVars, page, apiBase, undoVars, draftVars, notes, quickNotes, tasks, loading,
                 dragVars, remote, conts, loads>>

\* handleClientDelete(name), from the client manager: setClients, setNotes,
\* storage.setItem('clients') and syncState, none of them awaited
handleClientDelete(name) ==
  /\ EditorReady
  /\ ops < MaxOps
  /\ ops' = ops + 1
  /\ \E i \in 1..Len(clients) : clients[i] = name
  /\ LET nextClients == SelectSeq(clients, LAMBDA c : c # name)
         updatedNotes == [i \in 1..Len(notes) |->
                            IF notes[i].client = name
                            THEN [notes[i] EXCEPT !.client = ""]
                            ELSE notes[i]]
         m == [kind |-> "handleClientDelete", env |-> <<>>,
               body |-> appSyncBody(updatedNotes, nextClients, quickNotes, tasks)]
     IN /\ clients' = nextClients
        /\ notes' = updatedNotes
        /\ cache' = [cache EXCEPT !.clients = nextClients]
        /\ IF apiBase
           THEN (m \in net \/ Cardinality(net) < MaxNet) /\ net' = net \cup {m}
           ELSE net' = net
  /\ lastOp' = [NoOp EXCEPT !.op = "handleClientDelete"]
  /\ UNCHANGED <<uiVars, page, apiBase, undoVars, draftVars, quickNotes, tasks, loading, dragVars,
                 remote, conts, loads>>

\* ================================================================
\* SpecOrder: the reorder functions applied once to every task
\* collection a load can bring in (local-only configuration)
\* ================================================================
OrderVals == {NoOrder} \cup (0..MaxOrder)

TaskOf(i) ==
  [id : {i}, client : {"Acme"}, bucket : Buckets, order : OrderVals, done : {FALSE},
   createdAt : 1..MaxTime]

RECURSIVE SortedTaskLists(_)
\* every list of n tasks with ids 1..n that sortTasks leaves as it is
SortedTaskLists(n) ==
  IF n = 0 THEN {<<>>}
  ELSE LET shorter == SortedTaskLists(n - 1)
       IN UNION {{Append(s, t) : t \in {u \in TaskOf(n) :
                                          s = <<>> \/ ~TaskBefore(u, s[Len(s)])}} :
                 s \in shorter}

LoadedTaskLists == UNION {SortedTaskLists(n) : n \in 0..MaxTasks}

InitOrder ==
  /\ message = "null" /\ msgTimers = 0 /\ timerEnv = <<>>
  /\ page = "tasks"
  /\ apiBase = FALSE
  /\ tasks \in LoadedTaskLists
  /\ notes = <<>> /\ quickNotes = <<>>
  /\ clients = DEFAULT_CLIENTS
  /\ loading = FALSE
  /\ draggedTaskId = NoId /\ pc = "idle" /\ queuedTasks = <<>> /\ evBucket = "none"
  /\ lastOp = NoOp /\ ops = 0
  /\ DraftIdle
  /\ cache = [tasks |-> tasks, clients |-> clients, notes |-> <<>>, quickNotes |-> <<>>]
  /\ remote = <<>> /\ net = {} /\ conts = <<>> /\ loads = {}

NextOrder ==
  \/ lastOp.op = "none" /\ \E id \in 1..MaxTasks : DragStart(id)
  \/ lastOp.op = "none" /\ DragEnd
  \/ lastOp.op = "none" /\ \E b \in Buckets : ColumnOnDrop(b)
  \/ lastOp.op = "none" /\ \E id \in 1..MaxTasks : CardOnDrop(id)
  \/ ColumnOnDropBubble

SpecOrder == InitOrder /\ [][NextOrder]_vars

\* ================================================================
\* SpecSync: mount load, task mutations, header import and the pushes
\* and reloads they cause, against the API server
\* ================================================================
SyncTask(i) ==
  [id |-> i, client |-> IF i = 1 THEN "Acme" ELSE "Beta", bucket |-> "today",
   order |-> i - 1, done |-> FALSE, createdAt |-> 1]

SyncNote(i, c) == [id |-> i, client |-> c, date |-> 1, createdAt |-> i]

\* documents the local store can hold when a page mounts
SyncCaches ==
  [tasks : {<<>>, <<SyncTask(1), SyncTask(2)>>},
   clients : {<<>>, <<"Altessia", "Beta">>},
   notes : {<<SyncNote(1, "Acme")>>},
   quickNotes : {<<>>, <<SyncNote(1, "Beta")>>}]

\* rows of app_state_users: none, or what an earlier PUT stored
SyncRemotes ==
  {<<>>} \cup
  {<<coerceState(tasksSyncBody(n, c, q, <<SyncTask(1)>>))>> :
     n \in {<<SyncNote(2, "Beta")>>},
     c \in {<<"Altessia">>},
     q \in {<<>>, <<SyncNote(2, "Acme")>>}}

ImportedRows ==
  {<<[id |-> 3, title |-> "T", client |-> "Beta", date |-> 1, created_at |-> 3,
      updated_at |-> 3]>>}

InitSync ==
  /\ message = "null" /\ msgTimers = 0 /\ timerEnv = <<>>
  /\ page \in {"tasks", "home"}
  /\ apiBase \in BOOLEAN
  /\ tasks = <<>> /\ notes = <<>> /\ quickNotes = <<>>
  /\ clients = DEFAULT_CLIENTS
  /\ loading = TRUE
  /\ draggedTaskId = NoId /\ pc = "idle" /\ queuedTasks = <<>> /\ evBucket = "none"
  /\ lastOp = NoOp /\ ops = 0
  /\ DraftIdle
  /\ cache \in SyncCaches
  /\ remote \in SyncRemotes
  /\ net = {} /\ conts = <<>>
  /\ loads = {startLoad("mount")}

NextSync ==
  \/ \E l \in loads : FetchOk(l)
  \/ \E l \in loads : FetchFails(l)
  \/ \E l \in loads : StorageRead(l)
  \/ \E l \in loads : TasksLoadApply(l)
  \/ \E l \in loads : HomeLoadApply(l)
  \/ \E id \in 1..MaxTasks : DragStart(id)
  \/ \E b \in {"today", "week"} : ColumnOnDrop(b)
  \/ \E a \in ImportedRows : handleImportAll(a, <<>>)
  \/ StorageAwaitReturns
  \/ \E m \in net : PutApplied(m)
  \/ \E m \in net : PutFails(m)

SpecSync == InitSync /\ [][NextSync]_vars

\* ================================================================
\* SpecServer: one PUT /api/state with an arbitrary JSON body, and the
\* GETs around it
\* ================================================================
\* an item of the collection a field names
ItemOf(f) ==
  CASE f = "clients" -> "Acme"
    [] f = "tasks" -> SyncTask(1)
    [] OTHER -> SyncNote(1, "Acme")

\* value of a field of a request body: something that is not an array, an
\* empty array, an array with an item
JsonValue(f, shape) ==
  CASE shape = "other" -> [arr |-> FALSE, v |-> <<>>]
    [] shape = "empty" -> J(<<>>)
    [] OTHER -> J(<<ItemOf(f)>>)

\* request bodies: any subset of the four fields, any shape for each
Payloads ==
  UNION {{[f \in D |-> JsonValue(f, g[f])] : g \in [D -> {"other", "empty", "items"}]} :
         D \in SUBSET Fields}

InitServer ==
  /\ message = "null" /\ msgTimers = 0 /\ timerEnv = <<>>
  /\ page = "tasks"
  /\ apiBase = TRUE
  /\ tasks = <<>> /\ notes = <<>> /\ quickNotes = <<>>
  /\ clients = DEFAULT_CLIENTS
  /\ loading = TRUE
  /\ draggedTaskId = NoId /\ pc = "idle" /\ queuedTasks = <<>> /\ evBucket = "none"
  /\ lastOp = NoOp /\ ops = 0
  /\ DraftIdle
  /\ cache = [tasks |-> <<>>, clients |-> <<>>, notes |-> <<>>, quickNotes |-> <<>>]
  /\ remote \in SyncRemotes
  /\ net \in {{[kind |-> "updateTasks", env |-> <<>>, body |-> p]} : p \in Payloads}
  /\ conts = <<>>
  /\ loads = {startLoad("mount")}

NextServer ==
  \/ \E m \in net : PutApplied(m)
  \/ \E l \in loads : FetchOk(l)
  \/ \E l \in loads : TasksLoadApply(l)

SpecServer == InitServer /\ [][NextServer]_vars

\* ================================================================
\* SpecDraft: the actas page after its load: draft edits, the debounced
\* auto-save and its push, client deletion
\* ================================================================
AppNote(i, c) ==
  [id |-> i, client |-> c, date |-> 1, content |-> "a", createdAt |-> 0, updatedAt |-> 0]

\* note lists a load leaves in memory (sortNotes order)
LoadedNotes ==
  {<<>>, <<AppNote(1, "Acme")>>, <<AppNote(1, "Acme"), AppNote(2, "Beta")>>}

DraftTexts == {"", "a", "b"}

\* names typed in the client manager
ClientInputs == {"acme", "Beta", "Altessia"}

InitDraft ==
  /\ message = "null" /\ msgTimers = 0 /\ timerEnv = <<>>
  /\ page = "actas"
  /\ apiBase \in BOOLEAN
  /\ notes \in LoadedNotes
  /\ quickNotes = <<>> /\ tasks = <<>>
  /\ clients = sortClients(DEFAULT_CLIENTS \o ClientsOf(notes))
  /\ loading = FALSE
  /\ draggedTaskId = NoId /\ pc = "idle" /\ queuedTasks = <<>> /\ evBucket = "none"
  /\ lastOp = NoOp /\ ops = 0
  /\ draft \in {emptyDraft} \cup
               {[id |-> notes[i].id, client |-> notes[i].client, date |-> notes[i].date,
                 content |-> notes[i].content] : i \in 1..Len(notes)}
  /\ dirty = FALSE /\ saving = FALSE /\ timer = FALSE
  /\ saves = 0 /\ now = 0
  /\ undoAction = NoUndo /\ undoActa = NoActa /\ undoTimeout = NoTimeout
  /\ cache = [tasks |-> <<>>, clients |-> clients, notes |-> notes, quickNotes |-> <<>>]
  /\ remote = <<>> /\ net = {} /\ conts = <<>> /\ loads = {}

NextDraft ==
  \/ \E c \in DraftTexts : handleDraftChange(c)
  \/ saveDraft
  \/ \E id \in 1..2 : jumpToNote(id)
  \/ \E name \in {"Acme", "Beta", "Altessia"} : handleClientDelete(name)
  \/ \E name \in ClientInputs : ensureClientExists(name)
  \/ \E i \in 1..MaxClients, name \in ClientInputs : handleClientUpdate(i, name)
  \/ StorageAwaitReturns
  \/ \E m \in net : PutApplied(m)
  \/ \E m \in net : PutFails(m)

SpecDraft == InitDraft /\ [][NextDraft]_vars

\* ------------------------------------------------ App import / export
\* handleExport(): Papa.unparse of the notes in memory, downloaded as a file
handleExport ==
  /\ EditorReady
  /\ lastOp.op # "handleExport"
  /\ lastOp' = [NoOp EXCEPT !.op = "handleExport", !.rows = exportRows(notes)]
  /\ UNCHANGED <<uiVars, page, apiBase, undoVars, ops, draftVars, memVars, dragVars, ioVars>>

\* handleImport(file), the complete callback of Papa.parse: nothing when no
\* row passes the filter; otherwise setNotes, setClients, the two
\* storage.setItem and syncState
handleImport(rows) ==
  /\ EditorReady
  /\ Len(conts) < MaxConts /\ ops < MaxImports
  /\ ops' = ops + 1
  /\ LET imported == importRows(rows, notes)
         mergedNotes == sortNotes(mergeImported(notes, imported))
         updatedClients == sortClients(clients \o ClientsOf(imported))
     IN /\ lastOp' = [NoOp EXCEPT !.op = "handleImport", !.rows = rows, !.body = imported]
        /\ IF Len(importedRowsOf(rows)) = 0
           THEN UNCHANGED <<notes, clients, cache, conts>>
           ELSE /\ notes' = mergedNotes
                /\ clients' = updatedClients
                /\ cache' = [cache EXCEPT !.notes = mergedNotes, !.clients = updatedClients]
                /\ conts' = Append(conts,
                                   [kind |-> "handleImport", env |-> <<>>,
                                    body |-> appSyncBody(mergedNotes, updatedClients,
                                                         quickNotes, tasks)])
  /\ UNCHANGED <<uiVars, page, apiBase, undoVars, draftVars, quickNotes, tasks, loading, dragVars,
                 remote, net, loads>>

RECURSIVE NormalizeFrom(_, _, _, _)
\* rawNotes.map of normalizeNotes: a note without id, or with an id an
\* earlier note of the list has, gets nanoid()
NormalizeFrom(rawNotes, i, acc, used) ==
  IF i > Len(rawNotes) THEN acc
  ELSE LET note == rawNotes[i]
           given == "id" \in DOMAIN note /\ note.id # NoId
           fresh == 1 + MaxOf(used \cup {NoId})
           id == IF given /\ note.id \notin IdsOf(acc) THEN note.id ELSE fresh
       IN NormalizeFrom(rawNotes, i + 1,
                        Append(acc, [f \in DOMAIN note \cup {"id"} |->
                                       IF f = "id" THEN id ELSE note[f]]),
                        used \cup {id})

normalizeNotes(rawNotes) ==
  sortNotes(NormalizeFrom(rawNotes, 1, <<>>,
                          {rawNotes[i].id : i \in {j \in 1..Len(rawNotes) :
                                                     "id" \in DOMAIN rawNotes[j]}}))

\* App: end of loadFromApi / loadFromStorage
AppLoadApply(l) ==
  /\ page = "actas" /\ pc = "idle"
  /\ l \in loads /\ l.phase = "ready"
  /\ LET storedNotes == normalizeNotes(ArrOr(l.data, "notes"))
         storedQuickNotes == ArrOr(l.data, "quickNotes")
         storedTasks == ArrOr(l.data, "tasks")
         storedClients == ArrOr(l.data, "clients")
         combinedClients ==
           sortClients(DEFAULT_CLIENTS \o storedClients \o ClientsOf(storedNotes)
                         \o ClientsOf(storedQuickNotes) \o ClientsOf(storedTasks))
     IN /\ clients' = combinedClients
        /\ notes' = storedNotes
        /\ quickNotes' = storedQuickNotes
        /\ tasks' = storedTasks
        /\ cache' = IF l.src = "api"
                    THEN [tasks |-> storedTasks, clients |-> combinedClients,
                          notes |-> storedNotes, quickNotes |-> storedQuickNotes]
                    ELSE cache
        /\ draft' = IF Len(storedNotes) > 0
                    THEN [id |-> storedNotes[1].id, client |-> storedNotes[1].client,
                          date |-> storedNotes[1].date, content |-> storedNotes[1].content]
                    ELSE emptyDraft
  /\ loading' = FALSE
  /\ loads' = loads \ {l}
  /\ lastOp' = [NoOp EXCEPT !.op = IF l.failed THEN "loadFallback"
                                   ELSE IF l.src = "api" THEN "loadFromApi"
                                   ELSE "loadFromStorage"]
  /\ UNCHANGED <<uiVars, page, apiBase, undoVars, ops, dirty, saving, timer, saves, now, dragVars,
                 remote, net, conts>>

\* ----------------------------------------------------- undo ledger
\* registerUndo(action): clear the pending timeout, fill the slot, arm a
\* new 5000 ms timeout
registerUndo_keepsPending(action) ==
  /\ undoAction' = IF undoAction.type = "null" THEN action ELSE undoAction
  /\ undoTimeout' = IF undoTimeout.armed THEN undoTimeout
                    ELSE [armed |-> TRUE, for |-> action.task.id]
  /\ message' = IF action.type = "delete" THEN "Tarea eliminada" ELSE "Tarea actualizada"
registerUndo(action) ==
  /\ undoAction' = action
  /\ undoTimeout' = [armed |-> TRUE, for |-> action.task.id]
  /\ message' = IF action.type = "delete" THEN "Tarea eliminada" ELSE "Tarea actualizada"

\* handleDeleteTask(taskId): updateTasks(tasks without it), registerUndo
handleDeleteTask(taskId) ==
  /\ BoardReady
  /\ HasId(tasks, taskId)
  /\ Len(conts) < MaxConts /\ ops < MaxUndoOps
  /\ ops' = ops + 1
  /\ LET current == tasks[FindIndex(tasks, taskId)]
     IN /\ updateTasks(SelectSeq(tasks, LAMBDA t : t.id # taskId), TRUE)
        /\ registerUndo([type |-> "delete", task |-> current, previousDone |-> FALSE])
  /\ lastOp' = [NoOp EXCEPT !.op = "handleDeleteTask", !.id = taskId, !.body = tasks,
                            !.replaced = IF undoAction.type = "null" THEN NoId
                                         ELSE undoAction.task.id]
  /\ UNCHANGED <<msgTimers, timerEnv, page, apiBase, undoActa, draftVars, notes, quickNotes,
                 clients, loading, draggedTaskId, pc, evBucket, remote, net, loads>>

\* handleToggleDone(taskId): updateTasks(tasks with done flipped), registerUndo
handleToggleDone(taskId) ==
  /\ BoardReady
  /\ HasId(tasks, taskId)
  /\ Len(conts) < MaxConts /\ ops < MaxUndoOps
  /\ ops' = ops + 1
  /\ LET current == tasks[FindIndex(tasks, taskId)]
         next == [i \in 1..Len(tasks) |->
                    IF tasks[i].id = taskId
                    THEN [tasks[i] EXCEPT !.done = ~tasks[i].done] ELSE tasks[i]]
     IN /\ updateTasks(next, TRUE)
        /\ registerUndo([type |-> "toggle", task |-> current,
                         previousDone |-> current.done])
  /\ lastOp' = [NoOp EXCEPT !.op = "handleToggleDone", !.id = taskId,
                            !.replaced = IF undoAction.type = "null" THEN NoId
                                         ELSE undoAction.task.id]
  /\ UNCHANGED <<msgTimers, timerEnv, page, apiBase, undoActa, draftVars, notes, quickNotes,
                 clients, loading, draggedTaskId, pc, evBucket, remote, net, loads>>

\* handleUndo(): nothing without a pending action; a delete puts the task
\* back in front and sorts, a toggle restores the flag; setUndoAction(null).
\* The 5000 ms timeout is not cleared.  setMessage('Cambios deshechos')
\* The Deshacer button that calls it is rendered inside the message only.
\* and a 1200 ms timeout that sets the message to null.
handleUndo ==
  /\ BoardReady
  /\ undoAction.type # "null" => message # "null"
  /\ Len(conts) < MaxConts /\ ops < MaxUndoOps
  /\ ops' = ops + 1
  /\ IF undoAction.type = "null"
     THEN /\ lastOp' = [NoOp EXCEPT !.op = "handleUndo"]
          /\ UNCHANGED <<tasks, queuedTasks, cache, conts, undoAction, message, msgTimers>>
     ELSE LET task == undoAction.task
          IN /\ IF undoAction.type = "delete"
                THEN updateTasks(<<task>> \o tasks, TRUE)
                ELSE updateTasks([i \in 1..Len(tasks) |->
                                    IF tasks[i].id = task.id
                                    THEN [tasks[i] EXCEPT !.done = undoAction.previousDone]
                                    ELSE tasks[i]], TRUE)
             /\ undoAction' = NoUndo
             /\ PendingMsgTimers < MaxMsgTimers
             /\ message' = "Cambios deshechos"
             /\ msgTimers' = msgTimers + 1
             /\ lastOp' = [NoOp EXCEPT !.op = "handleUndo", !.id = task.id]
  /\ UNCHANGED <<timerEnv, page, apiBase, undoActa, undoTimeout, draftVars, notes, quickNotes,
                 clients, loading, draggedTaskId, pc, evBucket, remote, net, loads>>

\* handleAddTask() with a title typed, no client typed and the column
\* createBucket: the new task gets order 1 + the largest order of the column
\* (a missing order counting as 0); ensureClientExists(client, next) adds the
\* client to the registry and pushes; then updateTasks(next), and once it
\* has returned, setMessage (the text 'Tarea anadida', written with n-tilde
\* in the source) and a 1200 ms timeout that sets the message to null
\* (afterSync)
handleAddTask(bucket) ==
  /\ BoardReady
  /\ Len(conts) < MaxConts /\ ops < MaxUndoOps
  /\ PendingMsgTimers < MaxMsgTimers
  /\ ops' = ops + 1
  /\ LET client == "Sin cliente"
         timestamp == now + 1
         maxOrder == MaxOf({-1} \cup {OrderOrZero(tasks[i]) :
                                    i \in {j \in 1..Len(tasks) : BucketOf(tasks[j]) = bucket}})
         newTask == [id |-> 1 + MaxOf(IdsOf(tasks) \cup {NoId}
                                        \cup (IF undoAction.type = "null" THEN {}
                                              ELSE {undoAction.task.id})),
                     client |-> client, bucket |-> bucket, order |-> maxOrder + 1,
                     done |-> FALSE, createdAt |-> timestamp]
         next == <<newTask>> \o tasks
         sorted == sortTasks(next)
         known == \E i \in 1..Len(clients) : toLowerCase(clients[i]) = toLowerCase(client)
         nextClients == IF known THEN clients
                        ELSE SortNamesFrom(Append(clients, client), 1, <<>>)
         m == [kind |-> "ensureClientExists", env |-> <<>>,
               body |-> tasksSyncBody(notes, nextClients, quickNotes, next)]
     IN /\ now' = timestamp
        /\ clients' = nextClients
        /\ tasks' = sorted
        /\ queuedTasks' = <<>>
        /\ cache' = [cache EXCEPT !.tasks = sorted, !.clients = nextClients]
        /\ conts' = Append(conts, [kind |-> "updateTasks", env |-> <<"handleAddTask">>,
                                   body |-> tasksSyncBody(notes, clients, quickNotes, sorted)])
        /\ IF apiBase /\ ~known
           THEN (m \in net \/ Cardinality(net) < MaxNet) /\ net' = net \cup {m}
           ELSE net' = net
        /\ lastOp' = [NoOp EXCEPT !.op = "handleAddTask", !.id = newTask.id,
                                  !.bucket = bucket]
  /\ UNCHANGED <<uiVars, page, apiBase, undoVars, draft, dirty, saving, timer, saves, notes,
                 quickNotes, loading, draggedTaskId, pc, evBucket, remote, loads>>

\* the 5000 ms timeout fires: the slot of the mounted page is set to null,
\* and so is the board's message
undoTimeoutFires_keepsSlot ==
  /\ pc = "idle"
  /\ undoTimeout.armed
  /\ undoTimeout' = NoTimeout
  /\ message' = IF page = "tasks" THEN "null" ELSE message
  /\ lastOp' = [NoOp EXCEPT !.op = "undoTimeoutFires", !.id = undoTimeout.for]
  /\ UNCHANGED <<msgTimers, timerEnv, page, apiBase, ops, undoAction, undoActa, draftVars,
                 memVars, dragVars, ioVars>>
undoTimeoutFires ==
  /\ pc = "idle"
  /\ undoTimeout.armed
  /\ undoTimeout' = NoTimeout
  /\ IF page = "tasks"
     THEN undoAction' = NoUndo /\ undoActa' = undoActa
     ELSE undoActa' = NoActa /\ undoAction' = undoAction
  /\ message' = IF page = "tasks" THEN "null" ELSE message
  /\ lastOp' = [NoOp EXCEPT !.op = "undoTimeoutFires", !.id = undoTimeout.for]
  /\ UNCHANGED <<msgTimers, timerEnv, page, apiBase, ops, draftVars, memVars, dragVars, ioVars>>

\* a 1200 ms timeout started by handleAddTask or handleUndo fires:
\* setMessage(null)
messageTimeoutFires ==
  /\ pc = "idle"
  /\ msgTimers > 0
  /\ msgTimers' = msgTimers - 1
  /\ message' = "null"
  /\ UNCHANGED <<timerEnv, page, apiBase, ops, lastOp, undoVars, draftVars, memVars, dragVars,
                 ioVars>>

\* App.handleDeleteNote() up to its first await: nothing without a
\* selection; setNotes(remaining), storage.setItem; the rest runs after
\* syncState (afterSync)
handleDeleteNote ==
  /\ EditorReady
  /\ draft.id # NoId
  /\ Len(conts) < MaxConts /\ ops < MaxUndoOps
  /\ ops' = ops + 1
  /\ LET selectedId == draft.id
         deleted == IF HasId(notes, selectedId)
                    THEN notes[FindIndex(notes, selectedId)] ELSE NoActa
         remaining == SelectSeq(notes, LAMBDA n : n.id # selectedId)
     IN /\ notes' = remaining
        /\ cache' = [cache EXCEPT !.notes = remaining]
        /\ conts' = Append(conts,
                           [kind |-> "handleDeleteNote", env |-> <<deleted, remaining>>,
                            body |-> appSyncBody(remaining, clients, quickNotes, tasks)])
        /\ lastOp' = [NoOp EXCEPT !.op = "handleDeleteNote", !.id = selectedId,
                                  !.body = notes]
  /\ UNCHANGED <<uiVars, page, apiBase, undoVars, draftVars, quickNotes, tasks, clients, loading,
                 dragVars, remote, net, loads>>

\* App.handleUndoDelete() up to its first await: nothing without a pending
\* note; setNotes(sortNotes([undoActa, ...notes])), storage.setItem; the
\* slot is cleared after syncState (afterSync)
handleUndoDelete ==
  /\ EditorReady
  /\ Len(conts) < MaxConts /\ ops < MaxUndoOps
  /\ ops' = ops + 1
  /\ IF undoActa.id = NoId
     THEN /\ lastOp' = [NoOp EXCEPT !.op = "handleUndoDelete"]
          /\ UNCHANGED <<notes, cache, conts>>
     ELSE LET restored == sortNotes(<<undoActa>> \o notes)
          IN /\ notes' = restored
             /\ cache' = [cache EXCEPT !.notes = restored]
             /\ conts' = Append(conts,
                                [kind |-> "handleUndoDelete", env |-> <<>>,
                                 body |-> appSyncBody(restored, clients, quickNotes, tasks)])
             /\ lastOp' = [NoOp EXCEPT !.op = "handleUndoDelete", !.id = undoActa.id]
  /\ UNCHANGED <<uiVars, page, apiBase, undoVars, draftVars, quickNotes, tasks, clients, loading,
                 dragVars, remote, net, loads>>

\* ------------------------------------------------ quick notes editor
\* NotasPage (quick notes): quickNotes is its `notes`, notes its
\* actasMirror, undoActa its undoNote.
QuickReady == page = "notas" /\ pc = "idle"

\* handleDraftChange(patch): setDraft, setSaving(true).  The effect with
\* deps [saving, draft] runs again: it clears the pending timeout and arms
\* one that calls the saveDraft of this render, which closes over the
\* notes of this render
quickHandleDraftChange(content) ==
  /\ QuickReady
  /\ ops < MaxOps
  /\ ops' = ops + 1
  /\ draft' = [draft EXCEPT !.content = content]
  /\ saving' = TRUE
  /\ timer' = TRUE
  /\ timerEnv' = quickNotes
  /\ lastOp' = [NoOp EXCEPT !.op = "quickHandleDraftChange"]
  /\ UNCHANGED <<message, msgTimers, page, apiBase, undoVars, dirty, saves, now, memVars,
                 dragVars, ioVars>>

\* the 600 ms timeout fires: saveDraft() up to its first await, computed
\* from the notes it closed over.  setNotes does not run the effect again;
\* setDraft (the id of a new note) does.
quickSaveDraft ==
  /\ QuickReady
  /\ timer
  /\ now < MaxNow
  /\ Len(conts) < MaxConts
  /\ IF isEmpty(draft)
     THEN /\ saving' = FALSE /\ timer' = FALSE
          /\ UNCHANGED <<draft, now, quickNotes, cache, conts, timerEnv>>
          /\ lastOp' = [NoOp EXCEPT !.op = "quickSaveDraft"]
     ELSE LET timestamp == now + 1
              id == 10 + timestamp
              newNote == [id |-> id, client |-> draft.client, date |-> draft.date,
                          content |-> draft.content,
                          createdAt |-> timestamp, updatedAt |-> timestamp]
              nextNotes ==
                IF draft.id # NoId
                THEN [i \in 1..Len(timerEnv) |->
                        IF timerEnv[i].id = draft.id
                        THEN [timerEnv[i] EXCEPT !.client = draft.client,
                                                 !.date = draft.date,
                                                 !.content = draft.content,
                                                 !.updatedAt = timestamp]
                        ELSE timerEnv[i]]
                ELSE <<newNote>> \o timerEnv
              sorted == sortQuickNotes(nextNotes)
          IN /\ now' = timestamp
             /\ saving' = TRUE
             /\ draft' = IF draft.id # NoId THEN draft ELSE [draft EXCEPT !.id = id]
             /\ timer' = (draft.id = NoId)
             /\ timerEnv' = IF draft.id = NoId THEN sorted ELSE timerEnv
             /\ quickNotes' = sorted
             /\ cache' = [cache EXCEPT !.quickNotes = sorted]
             /\ conts' = Append(conts,
                                [kind |-> "quickSaveDraft", env |-> <<>>,
                                 body |-> appSyncBody(notes, clients, sorted, tasks)])
             /\ lastOp' = [NoOp EXCEPT !.op = "quickSaveDraft", !.id = draft.id]
  /\ UNCHANGED <<message, msgTimers, page, apiBase, undoVars, ops, dirty, saves, notes, tasks,
                 clients, loading, dragVars, remote, net, loads>>

\* handleDeleteNote() of the quick-notes page up to its first await:
\* setNotes(remaining), storage.setItem; neither saving nor draft changes,
\* so a pending timeout stays as it is; the rest runs after syncState
quickHandleDeleteNote ==
  /\ QuickReady
  /\ draft.id # NoId
  /\ Len(conts) < MaxConts /\ ops < MaxOps
  /\ ops' = ops + 1
  /\ LET selectedId == draft.id
         deleted == IF HasId(quickNotes, selectedId)
                    THEN quickNotes[FindIndex(quickNotes, selectedId)] ELSE NoActa
         remaining == SelectSeq(quickNotes, LAMBDA n : n.id # selectedId)
     IN /\ quickNotes' = remaining
        /\ cache' = [cache EXCEPT !.quickNotes = remaining]
        /\ conts' = Append(conts,
                           [kind |-> "quickHandleDeleteNote", env |-> <<deleted, remaining>>,
                            body |-> appSyncBody(notes, clients, remaining, tasks)])
        /\ lastOp' = [NoOp EXCEPT !.op = "quickHandleDeleteNote", !.id = selectedId]
  /\ UNCHANGED <<uiVars, page, apiBase, undoVars, draftVars, notes, tasks, clients, loading,
                 dragVars, remote, net, loads>>

\* ================================================================
\* SpecUndo: deleting, toggling and undoing on the task board (local
\* mode) and deleting and undoing in the minutes editor
\* ================================================================
UndoTask(i) ==
  [id |-> i, client |-> "Acme", bucket |-> "today", order |-> 0, done |-> FALSE,
   createdAt |-> i]

InitUndo ==
  /\ message = "null" /\ msgTimers = 0 /\ timerEnv = <<>>
  /\ page \in {"tasks", "actas"}
  /\ apiBase \in (IF page = "tasks" THEN {FALSE} ELSE BOOLEAN)
  /\ tasks = IF page = "tasks" THEN <<UndoTask(1), UndoTask(2)>> ELSE <<>>
  /\ notes \in (IF page = "tasks" THEN {<<>>} ELSE LoadedNotes)
  /\ quickNotes = <<>>
  /\ clients = sortClients(DEFAULT_CLIENTS \o ClientsOf(notes) \o ClientsOf(tasks))
  /\ loading = FALSE
  /\ draggedTaskId = NoId /\ pc = "idle" /\ queuedTasks = <<>> /\ evBucket = "none"
  /\ lastOp = NoOp /\ ops = 0
  /\ draft = IF Len(notes) > 0
             THEN [id |-> notes[1].id, client |-> notes[1].client, date |-> notes[1].date,
                   content |-> notes[1].content]
             ELSE emptyDraft
  /\ dirty = FALSE /\ saving = FALSE /\ timer = FALSE
  /\ saves = 0 /\ now = 0
  /\ undoAction = NoUndo /\ undoActa = NoActa /\ undoTimeout = NoTimeout
  /\ cache = [tasks |-> tasks, clients |-> clients, notes |-> notes, quickNotes |-> <<>>]
  /\ remote = <<>> /\ net = {} /\ conts = <<>> /\ loads = {}

NextUndo ==
  \/ \E id \in 1..MaxTasks : handleDeleteTask(id)
  \/ \E id \in 1..MaxTasks : handleToggleDone(id)
  \/ handleUndo
  \/ undoTimeoutFires
  \/ messageTimeoutFires
  \/ handleDeleteNote
  \/ handleUndoDelete
  \/ StorageAwaitReturns
  \/ \E m \in net : PutApplied(m)
  \/ \E m \in net : PutFails(m)
  \/ \E l \in loads : StorageRead(l)
  \/ \E l \in loads : TasksLoadApply(l)

SpecUndo == InitUndo /\ [][NextUndo]_vars

\* ================================================================
\* SpecBoard: the task board in local mode: add, drag and drop, delete,
\* toggle, undo and the reloads they cause
\* ================================================================
BoardTask(i, order) == [UndoTask(i) EXCEPT !.order = order]

\* boards a load leaves in memory; a task stored without order is one
\* written before the field existed
BoardLists ==
  {sortTasks(<<BoardTask(1, 0), BoardTask(2, 1), BoardTask(3, NoOrder)>>)}

InitBoard ==
  /\ message = "null" /\ msgTimers = 0 /\ timerEnv = <<>>
  /\ page = "tasks"
  /\ apiBase = FALSE
  /\ tasks \in BoardLists
  /\ notes = <<>> /\ quickNotes = <<>>
  /\ clients = sortClients(DEFAULT_CLIENTS \o ClientsOf(tasks))
  /\ loading = FALSE
  /\ draggedTaskId = NoId /\ pc = "idle" /\ queuedTasks = <<>> /\ evBucket = "none"
  /\ lastOp = NoOp /\ ops = 0
  /\ draft = emptyDraft /\ dirty = FALSE /\ saving = FALSE /\ timer = FALSE
  /\ saves = 0 /\ now = MaxTasks
  /\ undoAction = NoUndo /\ undoActa = NoActa /\ undoTimeout = NoTimeout
  /\ cache = [tasks |-> tasks, clients |-> clients, notes |-> <<>>, quickNotes |-> <<>>]
  /\ remote = <<>> /\ net = {} /\ conts = <<>> /\ loads = {}

NextBoard ==
  \/ ops < MaxBoardOps /\ handleAddTask("today")
  \/ DragStart(2)
  \/ DragEnd
  \/ ops < MaxBoardOps /\ \E b \in {"today", "week"} : ColumnOnDrop(b)
  \/ ops < MaxBoardOps /\ CardOnDrop(1)
  \/ ColumnOnDropBubble
  \/ ops < MaxBoardOps /\ \E id \in {1, 2} : handleDeleteTask(id)
  \/ ops < MaxBoardOps /\ handleToggleDone(1)
  \/ ops < MaxBoardOps /\ handleUndo
  \/ undoTimeoutFires
  \/ messageTimeoutFires
  \/ StorageAwaitReturns
  \/ \E l \in loads : StorageRead(l)
  \/ \E l \in loads : TasksLoadApply(l)

SpecBoard == InitBoard /\ [][NextBoard]_vars

\* ================================================================
\* SpecTabs: the task board in one tab and the minutes editor of the same
\* user in a second tab, both with API_BASE, pushing to one remote row
\* ================================================================
\* what both tabs loaded: GET /api/state has no tasks
TabsClients == combineClients(DEFAULT_CLIENTS)

\* the row of app_state_users: none, or what an earlier PUT stored
TabsRemotes == {<<>>, <<coerceState(tasksSyncBody(<<>>, TabsClients, <<>>, <<>>))>>}

\* names the second tab's ensureClientExists adds to the registry it loaded
OtherTabNames == {"Beta", "acme"}

\* the second tab runs App.ensureClientExists(name): its syncState PUTs the
\* notes, quick notes and tasks it loaded with its own next registry.  The
\* tabs share no memory and no event, only the row the server keeps.
otherTabPush(name) ==
  /\ apiBase
  /\ LET next == sortClients(Append(TabsClients, name))
         m == [kind |-> "otherTab", env |-> <<>>, body |-> appSyncBody(<<>>, next, <<>>, <<>>)]
     IN /\ m \notin net
        /\ Cardinality(net) <= MaxNet
        /\ net' = net \cup {m}
  /\ UNCHANGED <<uiVars, page, apiBase, undoVars, ops, draftVars, memVars, dragVars, lastOp, cache, remote, conts, loads>>

InitTabs ==
  /\ message = "null" /\ msgTimers = 0 /\ timerEnv = <<>>
  /\ page = "tasks"
  /\ apiBase = TRUE
  /\ tasks = <<>> /\ notes = <<>> /\ quickNotes = <<>>
  /\ clients = TabsClients
  /\ loading = FALSE
  /\ draggedTaskId = NoId /\ pc = "idle" /\ queuedTasks = <<>> /\ evBucket = "none"
  /\ lastOp = NoOp /\ ops = 0
  /\ draft = emptyDraft /\ dirty = FALSE /\ saving = FALSE /\ timer = FALSE
  /\ saves = 0 /\ now = 0
  /\ undoAction = NoUndo /\ undoActa = NoActa /\ undoTimeout = NoTimeout
  /\ cache = [tasks |-> <<>>, clients |-> clients, notes |-> <<>>, quickNotes |-> <<>>]
  /\ remote \in TabsRemotes
  /\ net = {} /\ conts = <<>> /\ loads = {}

NextTabs ==
  \/ ops < MaxOps /\ handleAddTask("today")
  \/ \E name \in OtherTabNames : otherTabPush(name)
  \/ messageTimeoutFires
  \/ StorageAwaitReturns
  \/ \E m \in net : PutApplied(m)
  \/ \E l \in loads : FetchOk(l)
  \/ \E l \in loads : TasksLoadApply(l)

SpecTabs == InitTabs /\ [][NextTabs]_vars

\* ================================================================
\* SpecQuick: editing and deleting on the quick-notes page, no undo
\* ================================================================
\* quick notes a load leaves in memory (sortQuickNotes order)
LoadedQuickNotes ==
  {<<>>, <<AppNote(1, "Acme")>>, <<AppNote(1, "Acme"), AppNote(2, "Beta")>>}

InitQuick ==
  /\ message = "null" /\ msgTimers = 0 /\ timerEnv = <<>>
  /\ page = "notas"
  /\ apiBase \in BOOLEAN
  /\ quickNotes \in LoadedQuickNotes
  /\ notes = <<>> /\ tasks = <<>>
  /\ clients = sortClients(DEFAULT_CLIENTS \o ClientsOf(quickNotes))
  /\ loading = FALSE
  /\ draggedTaskId = NoId /\ pc = "idle" /\ queuedTasks = <<>> /\ evBucket = "none"
  /\ lastOp = NoOp /\ ops = 0
  /\ draft = IF Len(quickNotes) > 0
             THEN [id |-> quickNotes[1].id, client |-> quickNotes[1].client,
                   date |-> quickNotes[1].date, content |-> quickNotes[1].content]
             ELSE emptyDraft
  /\ dirty = FALSE /\ saving = FALSE /\ timer = FALSE
  /\ saves = 0 /\ now = 0
  /\ undoAction = NoUndo /\ undoActa = NoActa /\ undoTimeout = NoTimeout
  /\ cache = [tasks |-> <<>>, clients |-> clients, notes |-> <<>>, quickNotes |-> quickNotes]
  /\ remote = <<>> /\ net = {} /\ conts = <<>> /\ loads = {}

NextQuick ==
  \/ \E c \in DraftTexts : quickHandleDraftChange(c)
  \/ quickSaveDraft
  \/ quickHandleDeleteNote
  \/ undoTimeoutFires
  \/ StorageAwaitReturns
  \/ \E m \in net : PutApplied(m)
  \/ \E m \in net : PutFails(m)

SpecQuick == InitQuick /\ [][NextQuick]_vars

\* ================================================================
\* SpecImport: CSV files imported into, and exported from, the minutes
\* editor, with the header's import and the reload it triggers
\* ================================================================
ImportNote(i, title, client, content) ==
  [id |-> i, title |-> title, client |-> client, date |-> 1, content |-> content,
   createdAt |-> i, updatedAt |-> i]

\* notes saveDraft can have stored: not every text blank
StoredNotes(i) ==
  {ImportNote(i, t, c, x) : t \in {"", "T"}, c \in {"", "Acme"}, x \in {"", "x"}}
    \ {ImportNote(i, "", "", "")}

\* collections a load leaves in memory (sortNotes order)
ImportCollections ==
  {<<>>} \cup {<<n>> : n \in StoredNotes(1)}
         \cup {<<ImportNote(2, "T", "Acme", "x"), n>> : n \in StoredNotes(1)}

\* rows of CSV files written by hand or by another program
RowPool ==
  {[id |-> 1, title |-> "U", client |-> "Beta", date |-> 1, content_html |-> "y",
    created_at |-> 1, updated_at |-> 2],
   [id |-> 3, title |-> "N"],
   [title |-> "N", client |-> "Beta"],
   [content_html |-> "y", date |-> 1],
   [id |-> 2, client |-> "Beta", date |-> 1]}

RECURSIVE SeqsUpTo(_, _)
SeqsUpTo(S, n) ==
  IF n = 0 THEN {<<>>}
  ELSE LET shorter == SeqsUpTo(S, n - 1)
       IN shorter \cup {Append(q, x) : q \in shorter, x \in S}

\* files offered to the import: hand-written ones and exported ones
ImportFiles ==
  (SeqsUpTo(RowPool, MaxRows) \ {<<>>}) \cup {exportRows(E) : E \in ImportCollections \ {<<>>}}

\* files offered to the header's import: <<actas rows, quick-note rows>>
HeaderFiles ==
  {<<<<[id |-> 3, title |-> "N"], [id |-> 3, title |-> "U"]>>, <<>>>>,
   <<<<[title |-> "N", client |-> "Beta"]>>, <<>>>>,
   <<<<>>, <<[id |-> 5, title |-> "Q", client |-> "Acme", date |-> 1, created_at |-> 1,
              updated_at |-> 1],
             [id |-> 6, title |-> "Q", client |-> "Acme", date |-> 1, created_at |-> 2,
              updated_at |-> 2]>>>>}

InitImport ==
  /\ message = "null" /\ msgTimers = 0 /\ timerEnv = <<>>
  /\ page = "actas"
  /\ apiBase \in BOOLEAN
  /\ notes \in ImportCollections
  /\ quickNotes = <<>> /\ tasks = <<>>
  /\ clients = sortClients(DEFAULT_CLIENTS \o ClientsOf(notes))
  /\ loading = FALSE
  /\ draggedTaskId = NoId /\ pc = "idle" /\ queuedTasks = <<>> /\ evBucket = "none"
  /\ lastOp = NoOp /\ ops = 0
  /\ draft = IF Len(notes) > 0
             THEN [id |-> notes[1].id, client |-> notes[1].client, date |-> notes[1].date,
                   content |-> notes[1].content]
             ELSE emptyDraft
  /\ dirty = FALSE /\ saving = FALSE /\ timer = FALSE
  /\ saves = 0 /\ now = MaxTime
  /\ undoAction = NoUndo /\ undoActa = NoActa /\ undoTimeout = NoTimeout
  /\ cache = [tasks |-> <<>>, clients |-> clients, notes |-> notes, quickNotes |-> <<>>]
  /\ remote = <<>> /\ net = {} /\ conts = <<>> /\ loads = {}

NextImport ==
  \/ handleExport
  \/ \E rows \in ImportFiles : handleImport(rows)
  \/ \E f \in HeaderFiles : handleImportAll(f[1], f[2])
  \/ StorageAwaitReturns
  \/ \E m \in net : PutApplied(m)
  \/ \E m \in net : PutFails(m)
  \/ \E l \in loads : FetchOk(l)
  \/ \E l \in loads : FetchFails(l)
  \/ \E l \in loads : StorageRead(l)
  \/ \E l \in loads : AppLoadApply(l)

SpecImport == InitImport /\ [][NextImport]_vars

\* ================================================================
\* Properties of the reorder functions (SpecOrder)
\* ================================================================
InBucket(ts, b) == {i \in 1..Len(ts) : BucketOf(ts[i]) = b}

\* the orders of the tasks of bucket b are exactly 0..n-1, each once
DenseIn(ts, b) ==
  LET idx == InBucket(ts, b)
  IN /\ \A i \in idx : ts[i].order \in 0..(Cardinality(idx) - 1)
     /\ \A i, j \in idx : ts[i].order = ts[j].order => i = j

PosInBucket(ts, id) ==
  LET t == ts[FindIndex(ts, id)]
      col == sortTasks(SelectSeq(ts, LAMBDA u : BucketOf(u) = BucketOf(t)))
  IN FindIndex(col, id)

\* C9: after the drop of task B on the card of a sibling A (card onDrop
\* followed by the column's onDrop), B is in A's bucket, immediately before
\* A in canonical order.
C9_DropOnCardPlacesBefore ==
  (pc = "idle" /\ lastOp.op = "applyDropOnTask+applyDrop" /\ lastOp.id # lastOp.target) =>
     LET a == tasks[FindIndex(tasks, lastOp.target)]
         b == tasks[FindIndex(tasks, lastOp.id)]
     IN /\ BucketOf(b) = BucketOf(a)
        /\ PosInBucket(tasks, lastOp.id) + 1 = PosInBucket(tasks, lastOp.target)

\* C10: a drop into a bucket's empty area gives the moved task the target
\* bucket and the order 1 + the largest order the other tasks of the bucket
\* have, or 0 when there is no such order.
C10_DropAppendsAfterMax ==
  [][(lastOp.op = "none" /\ lastOp'.op = "applyDrop") =>
       LET b == lastOp'.bucket
           id == lastOp'.id
           orders == {tasks[i].order : i \in {j \in InBucket(tasks, b) :
                                              tasks[j].id # id /\ tasks[j].order # NoOrder}}
           moved == tasks'[FindIndex(tasks', id)]
       IN /\ moved.bucket = b
          /\ moved.order = IF orders = {} THEN 0 ELSE 1 + MaxOf(orders)]_vars

\* C11: a drop into a bucket's empty area changes only the moved task's
\* bucket and order: the collection keeps its size, every other task is in
\* it with all its fields as before, and the moved task keeps its id,
\* client, done flag and creation time.
C11_DropIsAppendOnly ==
  [][(lastOp.op = "none" /\ lastOp'.op = "applyDrop") =>
       LET id == lastOp'.id
           moved == tasks'[FindIndex(tasks', id)]
           before == tasks[FindIndex(tasks, id)]
       IN /\ Len(tasks') = Len(tasks)
          /\ \A i \in 1..Len(tasks) :
                tasks[i].id # id => \E j \in 1..Len(tasks') : tasks'[j] = tasks[i]
          /\ moved = [before EXCEPT !.bucket = moved.bucket, !.order = moved.order]
          /\ cache'.tasks = tasks']_vars

\* a task was dropped into another bucket that already held a task, a third
\* task sitting elsewhere
C11_Witness ==
  /\ pc = "idle" /\ lastOp.op = "applyDrop" /\ Len(tasks) = 3
  /\ \E i, j, k \in 1..Len(tasks) :
        /\ tasks[i].id = lastOp.id /\ tasks[i].order > 0
        /\ j # i /\ BucketOf(tasks[j]) = lastOp.bucket
        /\ BucketOf(tasks[k]) # lastOp.bucket

\* ================================================================
\* Properties of load and push (SpecSync)
\* ================================================================
Items(seq) == {seq[i] : i \in 1..Len(seq)}

\* C3: with a remote configured, when the fetch of a load fails, the load
\* falls back to the local cache: nothing changes until the cache is read,
\* the read takes the four cached collections, and the load ends by setting
\* the in-memory state to what was read (as a local-only load presents it:
\* tasks in canonical order, registry merged with the default clients),
\* with the cache unchanged and loading ended.
C3_FetchFailureFallsBackToCache ==
  [][\A l \in loads :
       /\ (l.src = "api" /\ l.phase = "wait" /\ l \notin loads'
              /\ loads' # loads \ {l} /\ \E r \in loads' \ loads : r.failed) =>
            /\ UNCHANGED <<memVars, cache>>
            /\ \A r \in loads' \ loads : r.src = "storage" /\ r.phase = "wait"
       /\ (l.failed /\ l.phase = "wait" /\ l \notin loads') =>
            /\ UNCHANGED <<memVars, cache>>
            /\ \E r \in loads' : r.failed /\ r.phase = "ready"
                                    /\ r.data = storageDoc(cache)
       /\ (l.failed /\ l.phase = "ready" /\ l \notin loads') =>
            /\ cache' = cache
            /\ loading' = FALSE
            /\ tasks' = sortTasks(l.data.tasks.v)
            /\ page = "tasks" =>
                 /\ notes' = l.data.notes.v
                 /\ quickNotes' = l.data.quickNotes.v
                 /\ clients' = combineClients(DEFAULT_CLIENTS \o l.data.clients.v
                                                \o ClientsOf(l.data.tasks.v))
            /\ page = "home" => notes' = sortNotes(l.data.notes.v)]_vars

\* the task board shows the cached tasks after its mount load could not
\* reach a server that holds another document
C3_Witness ==
  /\ apiBase /\ page = "tasks" /\ lastOp.op = "loadFallback"
  /\ ~loading /\ loads = {}
  /\ remote # <<>> /\ ArrOr(remote[1], "notes") # cache.notes
  /\ tasks # <<>> /\ tasks = cache.tasks
  /\ notes = cache.notes /\ quickNotes = cache.quickNotes

\* C4: a load whose fetch succeeded makes the fetched document the
\* in-memory state and leaves in the cache, for each of the four
\* collections, the items of the fetched document; without a remote
\* configured nothing is fetched or pushed.
C4_FetchOverwritesCache ==
  [][/\ \A l \in loads :
          (l.src = "api" /\ l.phase = "ready" /\ l \notin loads') =>
            /\ Items(cache'.notes) = Items(ArrOr(l.data, "notes"))
            /\ Items(cache'.quickNotes) = Items(ArrOr(l.data, "quickNotes"))
            /\ Items(cache'.tasks) = Items(ArrOr(l.data, "tasks"))
            /\ Items(ArrOr(l.data, "clients")) \subseteq Items(cache'.clients)
            /\ Items(notes') = Items(ArrOr(l.data, "notes"))
            /\ Items(tasks') = Items(ArrOr(l.data, "tasks"))
     /\ ~apiBase => (net' = {} /\ \A l \in loads' : l.src = "storage")]_vars

\* C5: the reload that follows a failed push (its fetch succeeding) leaves
\* the in-memory collections and the local cache as the mutation left them.
C5_FailedPushKeepsLocalState ==
  [][\A l \in loads :
       (l.cause = "pushFailed" /\ l.src = "api" /\ l.phase = "ready" /\ l \notin loads') =>
          /\ tasks' = tasks /\ notes' = notes /\ quickNotes' = quickNotes
          /\ cache' = cache]_vars

\* C6: every PUT in flight carries the four collections.
C6_PushCarriesFourCollections ==
  \A m \in net : DOMAIN m.body = Fields

\* ================================================================
\* Properties of the API server (SpecServer)
\* ================================================================
\* C7: the GET that follows a PUT answers with the four collections of the
\* PUT body, a field that was missing or not an array being an empty array.
C7_GetReturnsWhatWasPut ==
  [][\A l \in loads :
       (lastOp.op = "put" /\ l.src = "api" /\ l.phase = "wait") =>
          \A r \in loads' \ loads :
             (r.src = "api" /\ r.phase = "ready") =>
                \A f \in Fields :
                   f \in DOMAIN r.data /\ r.data[f] = J(ArrOr(lastOp.body, f))]_vars

\* ================================================================
\* Properties of the actas page (SpecDraft)
\* ================================================================
\* C1: a handler that changes an in-memory collection writes that
\* collection to the local cache in the same step (before the push returns).
C1_MutationWritesCache ==
  [][/\ notes' # notes => cache'.notes = notes'
     /\ clients' # clients => cache'.clients = clients'
     /\ tasks' # tasks => cache'.tasks = tasks']_vars

\* C2: with a remote configured, the edits of a burst are followed by one
\* push: no more than one saveDraft run (each run issues one PUT) happens
\* after the last edit.
C2_OnePushPerBurst ==
  apiBase => saves <= 1

\* ================================================================
\* Properties of SpecUndo
\* ================================================================

\* C12: the undo ledger is a single slot.  Recording an undoable action
\* leaves exactly that action in the slot, with the one pending countdown
\* armed for it, whatever was pending before; and a countdown that fires
\* while an action is pending is the countdown of that action, never the
\* one of an action it replaced.
C12_SingleSlotReplaced ==
  [][/\ (ops' = ops + 1 /\ lastOp'.op \in {"handleDeleteTask", "handleToggleDone"}) =>
          /\ undoAction'.task.id = lastOp'.id
          /\ undoAction'.type = (IF lastOp'.op = "handleDeleteTask" THEN "delete"
                                 ELSE "toggle")
          /\ undoTimeout' = [armed |-> TRUE, for |-> lastOp'.id]
     /\ (undoActa'.id # undoActa.id /\ undoActa'.id # NoId) =>
          undoTimeout' = [armed |-> TRUE, for |-> undoActa'.id]
     /\ (undoTimeout.armed /\ ~undoTimeout'.armed) =>
          /\ undoAction.type # "null" => undoTimeout.for = undoAction.task.id
          /\ undoActa.id # NoId => undoTimeout.for = undoActa.id]_vars

\* a second action was recorded on the board while another one was pending
C12_Witness ==
  /\ lastOp.op \in {"handleDeleteTask", "handleToggleDone"}
  /\ lastOp.replaced # NoId /\ lastOp.replaced # lastOp.id
  /\ undoAction.task.id = lastOp.id
  /\ undoTimeout = [armed |-> TRUE, for |-> lastOp.id]

\* C13: an undo that directly follows a delete puts the deleted entity
\* back with every field as it was, so that the collection holds the same
\* entities as before the delete; an undo click that directly follows an
\* undo changes nothing in memory or in the cache and starts no push.
C13_UndoRestoresOnce ==
  [][/\ (lastOp.op = "handleDeleteTask" /\ lastOp'.op = "handleUndo") =>
          /\ Items(tasks') = Items(lastOp.body) /\ Len(tasks') = Len(lastOp.body)
          /\ cache'.tasks = tasks'
     /\ (/\ lastOp.op = "handleDeleteNote" /\ HasId(lastOp.body, lastOp.id)
         /\ lastOp'.op = "handleUndoDelete") =>
          /\ Items(notes') = Items(lastOp.body) /\ Len(notes') = Len(lastOp.body)
          /\ cache'.notes = notes'
     /\ (/\ lastOp.op \in {"handleUndo", "handleUndoDelete"}
         /\ ops' = ops + 1
         /\ lastOp'.op \in {"handleUndo", "handleUndoDelete"}) =>
          /\ tasks' = tasks /\ notes' = notes /\ cache' = cache
          /\ conts' = conts /\ net' = net]_vars

\* C14: when the 5000 ms countdown elapses the slot is cleared, and an undo
\* requested while no countdown is pending finds no action: memory, the
\* cache and the remote document stay as they are and nothing is pushed.
C14_ExpiredUndoIsNoOp ==
  [][/\ (undoTimeout.armed /\ ~undoTimeout'.armed) =>
          /\ page = "tasks" => undoAction'.type = "null"
          /\ page = "actas" => undoActa'.id = NoId
     /\ (/\ ~undoTimeout.armed /\ ops' = ops + 1
         /\ lastOp'.op \in {"handleUndo", "handleUndoDelete"}) =>
          /\ lastOp'.id = NoId
          /\ tasks' = tasks /\ notes' = notes /\ cache' = cache /\ remote' = remote
          /\ conts' = conts /\ net' = net]_vars

\* a task was deleted, its countdown elapsed, and undo was requested after
C14_Witness ==
  /\ page = "tasks" /\ Len(tasks) = 1
  /\ lastOp.op = "handleUndo" /\ lastOp.id = NoId
  /\ ~undoTimeout.armed /\ undoAction.type = "null"

\* C15: an explicit undo clears the slot and cancels the countdown of the
\* undone action: once the undo has acted, no expiry timeout is pending.
C15_UndoCancelsCountdown ==
  [][(/\ ops' = ops + 1
      /\ lastOp'.op \in {"handleUndo", "handleUndoDelete"} /\ lastOp'.id # NoId) =>
        /\ ~undoTimeout'.armed
        /\ page = "tasks" => undoAction'.type = "null"]_vars

\* ================================================================
\* Properties of SpecImport
\* ================================================================

\* M is E merged with the batch B by id
MergedById(E, B, M) ==
  /\ Items(B) \subseteq Items(M)
  /\ \A e \in Items(E) : e.id \notin IdsOf(B) => e \in Items(M)
  /\ \A e \in Items(E) : (e.id \in IdsOf(B) /\ e \notin Items(B)) => e \notin Items(M)
  /\ Items(M) \subseteq Items(B) \cup Items(E)
  /\ Len(M) = Len(B) + Cardinality({j \in 1..Len(E) : E[j].id \notin IdsOf(B)})

\* C16: an import (from the editor into the notes in memory, from the
\* header into the stored notes) merges by id.  Every imported entity is
\* in the merged collection; every existing entity whose id no imported
\* entity has is in it unchanged; an existing entity whose id an imported
\* entity has is gone in favour of the imported version; and the merged
\* collection holds nothing else.
C16_ImportMergesById ==
  [][/\ (lastOp'.op = "handleImport" /\ ops' = ops + 1) =>
          MergedById(notes, lastOp'.body, notes')
     /\ (lastOp'.op = "handleImportAll" /\ ops' = ops + 1) =>
          MergedById(cache.notes, lastOp'.body, cache'.notes)]_vars

\* an import replaced one existing note, kept another and added a third
C16_Witness ==
  /\ lastOp.op = "handleImport" /\ Len(lastOp.body) = 2 /\ Len(notes) = 3
  /\ \E b \in Items(lastOp.body) : b.id = 1 /\ b.title = "U"
  /\ \E e \in Items(notes) : e.id = 2 /\ e.title = "T"
  /\ \A e \in Items(notes) : e.id = 1 => e.title = "U"

\* C17: an import rejects no row.  Every row of the file yields one entity
\* of the merged collection, with the row's id when it has one and an id
\* no existing note has when it has none.
C17_EveryRowImported ==
  [][(lastOp'.op = "handleImport" /\ ops' = ops + 1) =>
       LET rows == lastOp'.rows
           B == lastOp'.body
       IN /\ Len(B) = Len(rows)
          /\ \A i \in 1..Len(rows) :
                /\ B[i] \in Items(notes')
                /\ IF Has(rows[i], "id") THEN B[i].id = rows[i].id
                   ELSE B[i].id \notin IdsOf(notes)]_vars

\* C18: importing the rows exported from a collection into an empty
\* collection gives the entities of that collection, every field equal.
C18_ExportImportRoundTrip ==
  [][(lastOp'.op = "handleImport" /\ ops' = ops + 1 /\ notes = <<>>) =>
       \A E \in ImportCollections :
          lastOp'.rows = exportRows(E) =>
             /\ Len(notes') = Len(E)
             /\ Items(notes') = Items(E)]_vars

\* no two entities of the list have the same id
DistinctIds(list) == \A i, j \in 1..Len(list) : i # j => list[i].id # list[j].id

\* C19: in every reachable state the notes, the quick notes and the tasks
\* in memory each hold no two entities with the same id.
C19_IdsUniqueInMemory ==
  DistinctIds(notes) /\ DistinctIds(quickNotes) /\ DistinctIds(tasks)

\* an entity without its id
WithoutId(e) == [f \in DOMAIN e \ {"id"} |-> e[f]]

\* C20: an id, once assigned, is never changed.  A reload puts every stored
\* note in memory with the id it was stored with; any other step that keeps
\* a note of the collection in memory keeps it with its id.
C20_IdsNeverReassigned ==
  [][/\ (lastOp'.op \in {"loadFromApi", "loadFromStorage", "loadFallback"}
         /\ loads' # loads) =>
          \A l \in loads \ loads' :
             \A e \in Items(ArrOr(l.data, "notes")) : e \in Items(notes')
     /\ (lastOp'.op \in {"handleImport", "handleExport"}) =>
          \A e \in Items(notes) :
             (\E x \in Items(notes') : WithoutId(x) = WithoutId(e)) => e \in Items(notes')]_vars

\* date descending, ties on date by createdAt descending
Canonical(list) ==
  \A i, j \in 1..Len(list) :
     i < j => \/ list[i].date > list[j].date
              \/ list[i].date = list[j].date /\ list[i].createdAt >= list[j].createdAt

\* C22: the notes and the quick notes, in memory and in the local store,
\* are listed by date descending, and among entities of one date by
\* createdAt descending, whatever order they were given in.
C22_NotesInCanonicalOrder ==
  /\ Canonical(notes) /\ Canonical(quickNotes)
  /\ Canonical(cache.notes) /\ Canonical(cache.quickNotes)

\* ================================================================
\* Properties of the client registry (SpecDraft)
\* ================================================================

\* C21: in every reachable state the client registry has no two names that
\* are equal when case is ignored, and is in ascending collation order.
C21_RegistryUniqueAndSorted ==
  /\ \A i, j \in 1..Len(clients) :
        i # j => toLowerCase(clients[i]) # toLowerCase(clients[j])
  /\ \A i \in 1..(Len(clients) - 1) : CollRank(clients[i]) <= CollRank(clients[i + 1])

\* ================================================================
\* Properties of the task board (SpecBoard)
\* ================================================================

\* C25: in every reachable state of the board no two tasks of one bucket
\* have the same numeric order.
C25_OrdersUniqueInBucket ==
  \A i, j \in 1..Len(tasks) :
     (i # j /\ BucketOf(tasks[i]) = BucketOf(tasks[j]) /\ tasks[i].order # NoOrder) =>
        tasks[i].order # tasks[j].order

BothPushesComplete ==
  /\ lastOp.op = "put" /\ net = {} /\ conts = <<>>
  /\ lastOp.prev \notin TabsRemotes /\ lastOp.prev # <<coerceState(lastOp.body)>>

\* C24: with two tabs pushing whole documents to one remote row, once both
\* pushes are complete the remote document is the payload of the push the
\* server applied last, whichever mutation was issued last
C24_RemoteIsLastAppliedPayload ==
  BothPushesComplete => remote = <<lastOp.body>>

\* what the server does keep of the last payload
LastAppliedWins ==
  BothPushesComplete => remote = <<coerceState(lastOp.body)>>

\* a name one tab pushed and the server stored is not in the final document
LostUpdate ==
  /\ BothPushesComplete
  /\ \E i \in 1..Len(lastOp.prev[1].clients.v) :
        \A j \in 1..Len(remote[1].clients.v) :
           remote[1].clients.v[j] # lastOp.prev[1].clients.v[i]

\* ================================================================
\* Properties of the draft under concurrent saves (SpecDraft)
\* ================================================================
\* nothing is left that could still save the draft: no debounce timeout is
\* armed and no saveDraft is awaiting its cache write or its push
NothingPending == ~timer /\ conts = <<>> /\ net = {}

\* C26: every edit of the draft reaches the local cache once the user stops
\* editing: when no timer and no save is pending, the cached note of the
\* draft has the draft's content, also for an edit made while an earlier
\* saveDraft was awaiting
C26_EditsReachCache ==
  (NothingPending /\ draft.id # NoId /\ ~isEmpty(draft)) =>
     \A i \in 1..Len(cache.notes) :
        cache.notes[i].id = draft.id => cache.notes[i].content = draft.content

\* C27: selecting another note while the draft has edits whose 600 ms timer
\* has not fired does not lose the edits: once nothing is pending, the
\* cached note that was being edited has the content the draft had
C27_SwitchKeepsEdits ==
  (/\ lastOp.op = "jumpToNote" /\ lastOp.body # <<>> /\ lastOp.target # NoId
   /\ NothingPending) =>
     \A i \in 1..Len(cache.notes) :
        cache.notes[i].id = lastOp.target => cache.notes[i].content = lastOp.body[1].content

\* ================================================================
\* Properties of reloads on the task board (SpecBoard)
\* ================================================================
\* C29: once a task mutation is applied in memory and written to the local
\* cache (memory and cache agree), a reload that read its data before the
\* mutation does not overwrite the in-memory tasks or the cache with a
\* state that lacks the mutation
C29_ReloadKeepsMutation ==
  [][\A l \in loads :
       (/\ l.phase = "ready" /\ loads' = loads \ {l}
        /\ lastOp'.op \in {"loadFromStorage", "loadFromApi", "loadFallback"}
        /\ tasks = cache.tasks /\ l.data.tasks.v # cache.tasks) =>
          /\ tasks' = tasks
          /\ cache'.tasks = cache.tasks]_vars

\* ================================================================
\* Properties of the undo control (SpecBoard)
\* ================================================================
\* C30: while an undo slot is pending on the task board (its 5000 ms
\* countdown running, no undo invoked, no newer action), the undo control,
\* rendered only inside the message, stays available: no other timer or
\* operation hides it
C30_UndoControlAvailable ==
  (page = "tasks" /\ undoAction.type # "null" /\ undoTimeout.armed
   /\ undoTimeout.for = undoAction.task.id) => message # "null"

\* ================================================================
\* Properties of deleting on the quick-notes page (SpecQuick)
\* ================================================================
\* the note a delete removed: while the delete awaits, the one its
\* continuation holds; afterwards, the one in the undo slot
Deleted(id) ==
  \/ \E i \in 1..Len(conts) :
        conts[i].kind \in {"quickHandleDeleteNote", "handleDeleteNote"} /\ conts[i].env[1].id = id
  \/ \E m \in net :
        m.kind \in {"quickHandleDeleteNote", "handleDeleteNote"} /\ m.env[1].id = id
  \/ undoActa.id = id

\* C28: a quick note that was deleted, no undo being invoked, is absent from
\* the in-memory collection and from the local cache in every later state,
\* also while the delete awaits and a save timer was pending for its draft
C28_DeletedStaysDeleted ==
  \A id \in 1..2 :
     Deleted(id) => ~HasId(quickNotes, id) /\ ~HasId(cache.quickNotes, id)

====
